---- MODULE Spec2Model ----
(***************************************************************************)
(* Merge engine of Merged-IP-Data: the two-pass, priority-ordered fusion   *)
(* of several IP databases into one output trie.                           *)
(*                                                                         *)
(* Addresses are the integers 0 .. 2^AddrBits-1; a prefix is a start       *)
(* address and a bit length.  The lower half of the address space stands   *)
(* for IPv4, the upper half for IPv6.  The output trie is kept as the map  *)
(* from each covered address to the record a longest-prefix-match lookup   *)
(* returns for it.                                                         *)
(***************************************************************************)
EXTENDS Integers, Sequences, FiniteSets, TLC

\* Width of an address in the model.
AddrBits == 2
\* Largest number of leaves of the GeoLite2-City database.
MaxGeoLeaves == 2
\* Largest number of leaves of each DB-IP database (IPv4, IPv6).
MaxDBIPLeaves == 1
\* Largest number of leaves of an ASN, country-fallback or QQWry database.
MaxAuxLeaves == 1
\* Largest number of data rows of the proxy list file.
MaxProxyRows == 2
\* Largest number of networks of the GeoLite2-City stream fed to the worker pool.
MaxStreamLen == 4
\* Number of goroutines calling Intern at the same time.
NumCallers == 3

Addrs == 0 .. (2^AddrBits - 1)

---------------------------------------------------------------------------
(* Prefixes (net.IPNet / netip.Prefix)                                     *)

PrefixSize(p) == 2^(AddrBits - p.bits)

AllPrefixes ==
    { [start |-> s, bits |-> b] : s \in Addrs, b \in 0..AddrBits }

\* A network as an MMDB iterator yields it: the host bits of start are zero.
Networks == { p \in AllPrefixes : p.start % PrefixSize(p) = 0 }

\* net.IPNet.Contains / netip.Prefix.Contains: the address masked to the
\* prefix length equals the masked start.
Contains(p, a) == a \div PrefixSize(p) = p.start \div PrefixSize(p)

AddrsOf(p) == { a \in Addrs : Contains(p, a) }

Disjoint(p, q) == AddrsOf(p) \cap AddrsOf(q) = {}

V4Addrs == { a \in Addrs : a < 2^(AddrBits - 1) }
V6Addrs == Addrs \ V4Addrs

---------------------------------------------------------------------------
(* Records of the source databases                                         *)

NoNames == [l \in {} |-> ""]

\* reader.GeoLite2CityRecord after Reset
ZeroGeoLite2CityRecord ==
    [ City              |-> [GeonameID |-> 0, Names |-> NoNames],
      Continent         |-> [Code |-> "", GeonameID |-> 0, Names |-> NoNames],
      Country           |-> [GeonameID |-> 0, ISOCode |-> "", Names |-> NoNames],
      Location          |-> [AccuracyRadius |-> 0, Latitude |-> 0, Longitude |-> 0,
                             MetroCode |-> 0, TimeZone |-> ""],
      Postal            |-> [Code |-> ""],
      RegisteredCountry |-> [GeonameID |-> 0, ISOCode |-> "", Names |-> NoNames],
      Subdivisions      |-> << >> ]

GeoLite2CityHasGeoData(r) == r.Country.ISOCode # "" \/ r.City.GeonameID # 0

GeoLite2CityHasLocationData(r) ==
    \/ r.Location.AccuracyRadius # 0
    \/ r.Location.Latitude # 0
    \/ r.Location.Longitude # 0
    \/ r.Location.TimeZone # ""

\* reader.DBIPCityRecord after Reset
ZeroDBIPCityRecord ==
    [ City |-> "", CountryCode |-> "", Latitude |-> 0, Longitude |-> 0,
      Postcode |-> "", State1 |-> "", State2 |-> "", Timezone |-> "" ]

DBIPHasGeoData(r) == r.CountryCode # "" \/ r.City # ""

DBIPHasLocationData(r) == r.Latitude # 0 \/ r.Longitude # 0 \/ r.Timezone # ""

\* reader.IPinfoLiteRecord; the asn string is a sequence of characters
ZeroIPinfoLiteRecord == [ASN |-> << >>, ASName |-> "", ASDomain |-> ""]

IPinfoHasASN(r) == r.ASN # << >>

Digits == <<"0", "1", "2", "3", "4", "5", "6", "7", "8", "9">>

IsDigit(c) == \E i \in 1..10 : Digits[i] = c

DigitValue(c) == (CHOOSE i \in 1..10 : Digits[i] = c) - 1

\* The decimal digits of the largest uint32.
MaxUint32Digits == <<"4", "2", "9", "4", "9", "6", "7", "2", "9", "5">>

RECURSIVE StripZeros(_)
StripZeros(s) ==
    IF s # << >> /\ Head(s) = "0" THEN StripZeros(Tail(s)) ELSE s

\* s and t are digit strings of one length: s is the larger number.
RECURSIVE DigitsGreater(_, _)
DigitsGreater(s, t) ==
    IF s = << >> THEN FALSE
    ELSE IF Head(s) # Head(t) THEN DigitValue(Head(s)) > DigitValue(Head(t))
    ELSE DigitsGreater(Tail(s), Tail(t))

ExceedsUint32(s) ==
    \/ Len(StripZeros(s)) > Len(MaxUint32Digits)
    \/ /\ Len(StripZeros(s)) = Len(MaxUint32Digits)
       /\ DigitsGreater(StripZeros(s), MaxUint32Digits)

RECURSIVE DigitsValue(_, _)
DigitsValue(s, acc) ==
    IF s = << >> THEN acc ELSE DigitsValue(Tail(s), acc * 10 + DigitValue(Head(s)))

\* strconv.ParseUint(s, 10, 32): -1 stands for the error return (an empty
\* string, a character that is no digit, a value out of range)
ParseUint(s) ==
    IF s = << >> \/ \E i \in 1..Len(s) : ~IsDigit(s[i]) THEN -1
    ELSE IF ExceedsUint32(s) THEN -1
    ELSE DigitsValue(s, 0)

\* strings.TrimPrefix(s, "AS")
TrimPrefixAS(s) ==
    IF Len(s) >= 2 /\ s[1] = "A" /\ s[2] = "S" THEN SubSeq(s, 3, Len(s)) ELSE s

GetASNumber(r) ==
    IF r.ASN = << >> THEN 0
    ELSE LET asn == ParseUint(TrimPrefixAS(r.ASN))
         IN  IF asn = -1 THEN 0 ELSE asn

\* reader.GeoLite2ASNRecord and reader.RouteViewsASNRecord
ZeroASNSourceRecord ==
    [AutonomousSystemNumber |-> 0, AutonomousSystemOrganization |-> ""]

GeoLite2ASNHasASN(r) == r.AutonomousSystemNumber # 0

RouteViewsHasASN(r) == r.AutonomousSystemNumber # 0

\* reader.GeoWhoisCountryRecord
ZeroGeoWhoisRecord == [CountryCode |-> ""]

GeoWhoisHasCountry(r) == r.CountryCode # ""

\* reader.QQWryRecord
ZeroQQWryRecord ==
    [ CountryName |-> "", RegionName |-> "", CityName |-> "", DistrictName |-> "",
      ISPDomain |-> "", CountryCode |-> "", ContinentCode |-> "" ]

ChinaName == "ZhongGuo"

QQWryHasGeoData(r) == r.CountryName # "" \/ r.RegionName # "" \/ r.CityName # ""

QQWryHasCityData(r) == r.CityName # ""

QQWryHasRegionData(r) == r.RegionName # ""

QQWryIsChina(r) == r.CountryCode = "CN" \/ r.CountryName = ChinaName

---------------------------------------------------------------------------
(* The unified record (merger.MergedRecord) and its MMDB serialization     *)

ZeroCity == [GeonameID |-> 0, Names |-> NoNames]
ZeroContinent == [Code |-> "", GeonameID |-> 0, Names |-> NoNames]
ZeroCountry == [GeonameID |-> 0, ISOCode |-> "", Names |-> NoNames]
ZeroLocation ==
    [ AccuracyRadius |-> 0, Latitude |-> 0, Longitude |-> 0, MetroCode |-> 0,
      TimeZone |-> "", HasCoordinates |-> FALSE ]
ZeroPostal == [Code |-> ""]
ZeroASN == [Number |-> 0, Organization |-> "", Domain |-> ""]
ZeroProxy ==
    [ IsProxy |-> FALSE, IsVPN |-> FALSE, IsTor |-> FALSE, IsHosting |-> FALSE,
      IsCDN |-> FALSE, IsSchool |-> FALSE, IsAnonymous |-> FALSE ]

\* The zero value of merger.MergedRecord
ZeroMergedRecord ==
    [ City |-> ZeroCity, Continent |-> ZeroContinent, Country |-> ZeroCountry,
      Location |-> ZeroLocation, Postal |-> ZeroPostal,
      RegisteredCountry |-> ZeroCountry, Subdivisions |-> << >>,
      ASN |-> ZeroASN, Proxy |-> ZeroProxy ]

\* Reset leaving the proxy flags of the previous network in place.
ResetKeepingProxy(r) ==
    [ r EXCEPT !.City = ZeroCity, !.Continent = ZeroContinent, !.Country = ZeroCountry,
               !.Location = ZeroLocation, !.Postal = ZeroPostal,
               !.RegisteredCountry = ZeroCountry, !.Subdivisions = << >>,
               !.ASN = ZeroASN ]

\* MergedRecord.Reset: every field goes back to its zero value
Reset(r) ==
    [ r EXCEPT !.City = ZeroCity, !.Continent = ZeroContinent, !.Country = ZeroCountry,
               !.Location = ZeroLocation, !.Postal = ZeroPostal,
               !.RegisteredCountry = ZeroCountry, !.Subdivisions = << >>,
               !.ASN = ZeroASN, !.Proxy = ZeroProxy ]

\* interner.Intern returns the canonical copy, a string equal to its argument
Intern(s) == s

\* a nil mmdbtype.Map / mmdbtype.Slice
IsNil(m) == DOMAIN m = {}

NamesToMMDB(names) == [l \in DOMAIN names |-> Intern(names[l])]

KeyIf(cond, k) == IF cond THEN {k} ELSE {}

CityToMMDB(c) ==
    LET keys == KeyIf(c.GeonameID # 0, "geoname_id")
                \cup KeyIf(DOMAIN c.Names # {}, "names")
    IN  [k \in keys |-> IF k = "geoname_id" THEN c.GeonameID
                        ELSE NamesToMMDB(c.Names)]

ContinentToMMDB(c) ==
    LET keys == KeyIf(c.Code # "", "code")
                \cup KeyIf(c.GeonameID # 0, "geoname_id")
                \cup KeyIf(DOMAIN c.Names # {}, "names")
    IN  [k \in keys |-> IF k = "code" THEN Intern(c.Code)
                        ELSE IF k = "geoname_id" THEN c.GeonameID
                        ELSE NamesToMMDB(c.Names)]

CountryToMMDB(c) ==
    LET keys == KeyIf(c.GeonameID # 0, "geoname_id")
                \cup KeyIf(c.ISOCode # "", "iso_code")
                \cup KeyIf(DOMAIN c.Names # {}, "names")
    IN  [k \in keys |-> IF k = "geoname_id" THEN c.GeonameID
                        ELSE IF k = "iso_code" THEN Intern(c.ISOCode)
                        ELSE NamesToMMDB(c.Names)]

\* LocationRecord.toMMDBType emitting each coordinate when it is not zero.
LocationToMMDBNonZero(l) ==
    LET keys == KeyIf(l.AccuracyRadius # 0, "accuracy_radius")
                \cup KeyIf(l.Latitude # 0, "latitude")
                \cup KeyIf(l.Longitude # 0, "longitude")
                \cup KeyIf(l.MetroCode # 0, "metro_code")
                \cup KeyIf(l.TimeZone # "", "time_zone")
    IN  [k \in keys |-> CASE k = "accuracy_radius" -> l.AccuracyRadius
                          [] k = "latitude" -> l.Latitude
                          [] k = "longitude" -> l.Longitude
                          [] k = "metro_code" -> l.MetroCode
                          [] OTHER -> Intern(l.TimeZone)]

LocationToMMDB(l) ==
    LET keys == KeyIf(l.AccuracyRadius # 0, "accuracy_radius")
                \cup (IF l.HasCoordinates THEN {"latitude", "longitude"} ELSE {})
                \cup KeyIf(l.MetroCode # 0, "metro_code")
                \cup KeyIf(l.TimeZone # "", "time_zone")
    IN  [k \in keys |-> CASE k = "accuracy_radius" -> l.AccuracyRadius
                          [] k = "latitude" -> l.Latitude
                          [] k = "longitude" -> l.Longitude
                          [] k = "metro_code" -> l.MetroCode
                          [] OTHER -> Intern(l.TimeZone)]

PostalToMMDB(p) == [k \in KeyIf(p.Code # "", "code") |-> p.Code]

SubdivisionToMMDB(s) ==
    LET keys == KeyIf(s.GeonameID # 0, "geoname_id")
                \cup KeyIf(s.ISOCode # "", "iso_code")
                \cup KeyIf(DOMAIN s.Names # {}, "names")
    IN  [k \in keys |-> IF k = "geoname_id" THEN s.GeonameID
                        ELSE IF k = "iso_code" THEN Intern(s.ISOCode)
                        ELSE NamesToMMDB(s.Names)]

RECURSIVE NonNilMaps(_)
NonNilMaps(seq) ==
    IF seq = << >> THEN << >>
    ELSE IF IsNil(Head(seq)) THEN NonNilMaps(Tail(seq))
    ELSE <<Head(seq)>> \o NonNilMaps(Tail(seq))

SubdivisionsToMMDB(r) ==
    NonNilMaps([i \in 1..Len(r.Subdivisions) |-> SubdivisionToMMDB(r.Subdivisions[i])])

ASNToMMDB(a) ==
    LET keys == KeyIf(a.Number # 0, "autonomous_system_number")
                \cup KeyIf(a.Organization # "", "autonomous_system_organization")
                \cup KeyIf(a.Domain # "", "as_domain")
    IN  [k \in keys |-> CASE k = "autonomous_system_number" -> a.Number
                          [] k = "autonomous_system_organization" -> Intern(a.Organization)
                          [] OTHER -> Intern(a.Domain)]

ProxyToMMDB(p) ==
    LET keys == KeyIf(p.IsProxy, "is_proxy") \cup KeyIf(p.IsVPN, "is_vpn")
                \cup KeyIf(p.IsTor, "is_tor") \cup KeyIf(p.IsHosting, "is_hosting")
                \cup KeyIf(p.IsCDN, "is_cdn") \cup KeyIf(p.IsSchool, "is_school")
                \cup KeyIf(p.IsAnonymous, "is_anonymous")
    IN  [k \in keys |-> TRUE]

\* MergedRecord.ToMMDBType: the map with no key stands for the nil return
ToMMDBType(r) ==
    LET parts == [ city               |-> CityToMMDB(r.City),
                   continent          |-> ContinentToMMDB(r.Continent),
                   country            |-> CountryToMMDB(r.Country),
                   location           |-> LocationToMMDB(r.Location),
                   postal             |-> PostalToMMDB(r.Postal),
                   registered_country |-> CountryToMMDB(r.RegisteredCountry),
                   subdivisions       |-> SubdivisionsToMMDB(r),
                   asn                |-> ASNToMMDB(r.ASN),
                   proxy              |-> ProxyToMMDB(r.Proxy) ]
        keys == { k \in DOMAIN parts : ~IsNil(parts[k]) }
    IN  [k \in keys |-> parts[k]]

\* IsEmpty taking the proxy flags for data.
IsEmptyCountingProxy(r) ==
    /\ r.Country.ISOCode = ""
    /\ r.City.GeonameID = 0
    /\ DOMAIN r.City.Names = {}
    /\ r.ASN.Number = 0
    /\ ~r.Location.HasCoordinates
    /\ ~(r.Proxy.IsProxy \/ r.Proxy.IsVPN \/ r.Proxy.IsTor \/ r.Proxy.IsHosting
          \/ r.Proxy.IsCDN \/ r.Proxy.IsSchool)

\* IsEmpty taking an AS organization without a number for data.
IsEmptyCountingOrganization(r) ==
    /\ r.Country.ISOCode = ""
    /\ r.City.GeonameID = 0
    /\ DOMAIN r.City.Names = {}
    /\ r.ASN.Number = 0
    /\ r.ASN.Organization = ""
    /\ ~r.Location.HasCoordinates

\* MergedRecord.IsEmpty
IsEmpty(r) ==
    /\ r.Country.ISOCode = ""
    /\ r.City.GeonameID = 0
    /\ DOMAIN r.City.Names = {}
    /\ r.ASN.Number = 0
    /\ ~r.Location.HasCoordinates

---------------------------------------------------------------------------
(* State                                                                   *)

VARIABLES
    db,          \* the opened source databases (read-only during the merge)
    pc,          \* position of Merger.Merge
    idx,         \* position of the network iterator of the current pass
    tree,        \* the output trie: covered address -> mmdbtype.Map
    stats,       \* Merger.stats
    mrecord,     \* the MergedRecord (var record) a pass reuses for every network
    pool,        \* workerPool: channels, totalNetworks, worker contexts
    workers,     \* position of each worker goroutine and the result it holds
    serializer,  \* position of the goroutine draining the result channel
    loader,      \* OpenOpenproxyDB at work: the CSV file, the position in it, the reader
    probe,       \* the last call of OpenproxyDBReader.LookupTo and what it returned
    faults,      \* the networks whose record fails to decode, and those the tree rejects
    ctor,        \* New and Merger.Close: the files, the open handles, the closers, the result
    fs,          \* Writer.Write: the output file, the temporary file, the position in Write
    interner     \* the global Interner: pool, counters, and the calls of Intern under way

\* The state outside the two passes of the merge.
\* What the merge never writes.
envVars == <<faults, ctor, fs, interner>>

ioVars == <<loader, probe, envVars>>

vars == <<ioVars, db, pc, idx, tree, stats, mrecord, pool, workers, serializer>>

\* A database as its iterator yields it: leaves in ascending address order.
RECURSIVE LeafSeq(_, _)
LeafSeq(S, f) ==
    IF S = {} THEN << >>
    ELSE LET m == CHOOSE p \in S : \A q \in S : p.start <= q.start
         IN  <<[net |-> m, rec |-> f[m]]>> \o LeafSeq(S \ {m}, f)

\* The sets of at most n pairwise disjoint networks inside a part of the
\* address space (the leaves of an MMDB search tree never overlap).
LeafSets(space, n) ==
    { S \in SUBSET { p \in Networks : AddrsOf(p) \subseteq space } :
        /\ Cardinality(S) <= n
        /\ \A p, q \in S : p # q => Disjoint(p, q) }

Databases(space, n, Recs) ==
    UNION { { LeafSeq(S, f) : f \in [S -> Recs] } : S \in LeafSets(space, n) }

\* m[k] = v on a Go map
MapSet(m, k, v) == [x \in DOMAIN m \cup {k} |-> IF x = k THEN v ELSE m[x]]

\* maxminddb Reader.Lookup into a record that was Reset: the record of the
\* leaf covering ip, the zero record when no leaf covers it.
Lookup(leaves, ip, zero) ==
    IF \E i \in 1..Len(leaves) : Contains(leaves[i].net, ip)
    THEN leaves[CHOOSE i \in 1..Len(leaves) : Contains(leaves[i].net, ip)].rec
    ELSE zero

Covers(leaves, ip) == \E i \in 1..Len(leaves) : Contains(leaves[i].net, ip)

LookupIPinfo(ip) == Lookup(db.ipinfoLite, ip, ZeroIPinfoLiteRecord)
LookupGeoLiteASN(ip) == Lookup(db.geoLiteASN, ip, ZeroASNSourceRecord)
LookupRouteViews(ip) == Lookup(db.routeViewsASN, ip, ZeroASNSourceRecord)
LookupGeoWhois(ip) == Lookup(db.geoWhoisCountry, ip, ZeroGeoWhoisRecord)
LookupQQWry(ip) == Lookup(db.qqwry, ip, ZeroQQWryRecord)
LookupGeoLiteCity(ip) == Lookup(db.geoLiteCity, ip, ZeroGeoLite2CityRecord)

---------------------------------------------------------------------------
(* Proxy list (reader.OpenproxyDBReader)                                   *)

\* OpenproxyDBRecord.HasData
ProxyHasData(r) ==
    r.IsProxy \/ r.IsVPN \/ r.IsTor \/ r.IsHosting \/ r.IsCDN \/ r.IsSchool

\* The record parse builds from the eight flag columns of a row.
ProxyRecordOf(row) ==
    [ IsProxy     |-> row.anonblock \/ row.proxy \/ row.rangeblock,
      IsVPN       |-> row.vpn,
      IsTor       |-> row.tor,
      IsHosting   |-> row.webhost,
      IsCDN       |-> row.cdn,
      IsSchool    |-> row.school,
      IsAnonymous |-> row.anonblock \/ row.proxy \/ row.rangeblock \/ row.vpn \/ row.tor ]

\* The rows parse keeps: a row whose record has no flag is skipped.
RECURSIVE KeptRows(_)
KeptRows(rows) ==
    IF rows = << >> THEN << >>
    ELSE IF ProxyHasData(ProxyRecordOf(Head(rows)))
    THEN <<Head(rows)>> \o KeptRows(Tail(rows))
    ELSE KeptRows(Tail(rows))

\* r.singleIPs after parse: a later row of an address replaces an earlier.
RECURSIVE ParseSingleIPs(_, _)
ParseSingleIPs(rows, m) ==
    IF rows = << >> THEN m
    ELSE IF Head(rows).cidr THEN ParseSingleIPs(Tail(rows), m)
    ELSE ParseSingleIPs(Tail(rows),
             MapSet(m, Head(rows).prefix.start, ProxyRecordOf(Head(rows))))

\* r.cidrRanges after parse, in file order.
RECURSIVE ParseCIDRRanges(_)
ParseCIDRRanges(rows) ==
    IF rows = << >> THEN << >>
    ELSE IF Head(rows).cidr
    THEN <<[prefix |-> Head(rows).prefix, record |-> ProxyRecordOf(Head(rows))]>>
         \o ParseCIDRRanges(Tail(rows))
    ELSE ParseCIDRRanges(Tail(rows))

\* The less function OpenOpenproxyDB hands to sort.Slice.
CIDRLess(x, y) ==
    IF x.prefix.start # y.prefix.start THEN x.prefix.start < y.prefix.start
    ELSE x.prefix.bits > y.prefix.bits

Orderings(n) == { f \in [1..n -> 1..n] : \A i, j \in 1..n : i # j => f[i] # f[j] }

\* The orders sort.Slice may leave the entries in: sort.Slice is not stable,
\* so entries that compare equal come out in any order.
SortedOrders(entries) ==
    { [i \in 1..Len(entries) |-> entries[f[i]]] : f \in
        { g \in Orderings(Len(entries)) :
            \A i, j \in 1..Len(entries) :
                i < j => ~CIDRLess(entries[g[j]], entries[g[i]]) } }

\* The readers OpenOpenproxyDB can return for a file of rows.
OpenOpenproxyDB(rows) ==
    { [ singleIPs |-> ParseSingleIPs(KeptRows(rows), [a \in {} |-> ZeroProxy]),
        cidrRanges |-> sorted ] :
      sorted \in SortedOrders(ParseCIDRRanges(KeptRows(rows))) }

\* netipx.IPSet.Contains on the set built from the prefixes of cidrRanges
CIDRSetContains(r, addr) ==
    \E i \in 1..Len(r.cidrRanges) : Contains(r.cidrRanges[i].prefix, addr)

\* sort.Search over cidrRanges: the entries before the returned position are
\* those whose prefix address is not above addr.
SearchIdx(r, addr) ==
    Cardinality({ i \in 1..Len(r.cidrRanges) : r.cidrRanges[i].prefix.start <= addr })

LastAddrInPrefix(p) == (p.start \div PrefixSize(p)) * PrefixSize(p) + PrefixSize(p) - 1

\* The backward loop of findInCIDR from position i; best is the position of
\* bestMatch, 0 while there is none.
RECURSIVE ScanBack(_, _, _, _)
ScanBack(r, addr, i, best) ==
    IF i < 1 THEN best
    ELSE LET entry == r.cidrRanges[i]
             bestBits == IF best = 0 THEN -1 ELSE r.cidrRanges[best].prefix.bits
             b == IF Contains(entry.prefix, addr) /\ entry.prefix.bits > bestBits
                  THEN i ELSE best
         IN  IF b # 0 /\ LastAddrInPrefix(entry.prefix) < addr THEN b
             ELSE ScanBack(r, addr, i - 1, b)

\* findInCIDR: the position of the entry returned, 0 for not found.
FindInCIDR(r, addr) ==
    IF Len(r.cidrRanges) = 0 THEN 0
    ELSE IF ~CIDRSetContains(r, addr) THEN 0
    ELSE ScanBack(r, addr, SearchIdx(r, addr), 0)

\* OpenproxyDBReader.LookupTo: whether a record was found
ProxyFound(r, addr) == addr \in DOMAIN r.singleIPs \/ FindInCIDR(r, addr) # 0

\* OpenproxyDBReader.LookupTo: the record found
ProxyLookup(r, addr) ==
    IF addr \in DOMAIN r.singleIPs THEN r.singleIPs[addr]
    ELSE r.cidrRanges[FindInCIDR(r, addr)].record

---------------------------------------------------------------------------
(* Merge planner: Merger.buildMergedRecord and the enrichers               *)

\* The source enrichWithASNData takes the ASN sub-record from.
ASNSource(ip) ==
    IF IPinfoHasASN(LookupIPinfo(ip)) THEN "ipinfo"
    ELSE IF GeoLite2ASNHasASN(LookupGeoLiteASN(ip)) THEN "geolite"
    ELSE IF RouteViewsHasASN(LookupRouteViews(ip)) THEN "routeviews"
    ELSE "none"

EnrichWithASNData(ip, record) ==
    CASE ASNSource(ip) = "ipinfo" ->
           [record EXCEPT !.ASN =
               [ Number       |-> GetASNumber(LookupIPinfo(ip)),
                 Organization |-> LookupIPinfo(ip).ASName,
                 Domain       |-> LookupIPinfo(ip).ASDomain ]]
      [] ASNSource(ip) = "geolite" ->
           [record EXCEPT !.ASN =
               [ Number       |-> LookupGeoLiteASN(ip).AutonomousSystemNumber,
                 Organization |-> LookupGeoLiteASN(ip).AutonomousSystemOrganization,
                 Domain       |-> "" ]]
      [] ASNSource(ip) = "routeviews" ->
           [record EXCEPT !.ASN =
               [ Number       |-> LookupRouteViews(ip).AutonomousSystemNumber,
                 Organization |-> LookupRouteViews(ip).AutonomousSystemOrganization,
                 Domain       |-> "" ]]
      [] OTHER -> record

\* The fallback applied whatever country the record already has.
CountryFallbackHitAlways(ip, record) == GeoWhoisHasCountry(LookupGeoWhois(ip))

CountryFallbackHit(ip, record) ==
    record.Country.ISOCode = "" /\ GeoWhoisHasCountry(LookupGeoWhois(ip))

EnrichWithCountryFallback(ip, record) ==
    IF CountryFallbackHit(ip, record)
    THEN [record EXCEPT !.Country.ISOCode = LookupGeoWhois(ip).CountryCode]
    ELSE record

\* enrichWithQQWryData without the IsChina test on the QQWry record.
QQWryHitAnyCountry(ip, record) ==
    /\ record.Country.ISOCode = "CN"
    /\ QQWryHasGeoData(LookupQQWry(ip))

QQWryHit(ip, record) ==
    /\ record.Country.ISOCode = "CN"
    /\ QQWryHasGeoData(LookupQQWry(ip))
    /\ QQWryIsChina(LookupQQWry(ip))

EnrichCityNames(q, record) ==
    IF QQWryHasCityData(q)
    THEN [record EXCEPT !.City.Names = MapSet(@, "zh-CN", q.CityName)]
    ELSE record

EnrichSubdivisionNames(q, record) ==
    IF ~QQWryHasRegionData(q) THEN record
    ELSE IF Len(record.Subdivisions) = 0
    THEN [record EXCEPT !.Subdivisions =
             << [GeonameID |-> 0, ISOCode |-> "",
                 Names |-> [l \in {"zh-CN"} |-> q.RegionName]] >>]
    ELSE [record EXCEPT !.Subdivisions[1].Names = MapSet(@, "zh-CN", q.RegionName)]

\* The country name written like the city name, over an existing value.
EnrichCountryNamesOverwrite(q, record) ==
    [record EXCEPT !.Country.Names = MapSet(@, "zh-CN", q.CountryName)]

EnrichCountryNames(q, record) ==
    IF "zh-CN" \in DOMAIN record.Country.Names THEN record
    ELSE [record EXCEPT !.Country.Names = MapSet(@, "zh-CN", q.CountryName)]

EnrichWithQQWryData(ip, record) ==
    IF ~QQWryHit(ip, record) THEN record
    ELSE LET q == LookupQQWry(ip)
         IN  EnrichCountryNames(q, EnrichSubdivisionNames(q, EnrichCityNames(q, record)))

\* The copy of the GeoLite2-City record into the merged record.
FromGeoLiteCity(geoRecord, record) ==
    [ record EXCEPT
        !.City = [GeonameID |-> geoRecord.City.GeonameID, Names |-> geoRecord.City.Names],
        !.Continent = [ Code |-> geoRecord.Continent.Code,
                        GeonameID |-> geoRecord.Continent.GeonameID,
                        Names |-> geoRecord.Continent.Names ],
        !.Country = [ GeonameID |-> geoRecord.Country.GeonameID,
                      ISOCode |-> geoRecord.Country.ISOCode,
                      Names |-> geoRecord.Country.Names ],
        !.Location = [ AccuracyRadius |-> geoRecord.Location.AccuracyRadius,
                       Latitude |-> geoRecord.Location.Latitude,
                       Longitude |-> geoRecord.Location.Longitude,
                       MetroCode |-> geoRecord.Location.MetroCode,
                       TimeZone |-> geoRecord.Location.TimeZone,
                       HasCoordinates |-> GeoLite2CityHasLocationData(geoRecord) ],
        !.Postal = [Code |-> geoRecord.Postal.Code],
        !.RegisteredCountry = [ GeonameID |-> geoRecord.RegisteredCountry.GeonameID,
                                ISOCode |-> geoRecord.RegisteredCountry.ISOCode,
                                Names |-> geoRecord.RegisteredCountry.Names ],
        !.Subdivisions = IF Len(geoRecord.Subdivisions) > 0
                         THEN geoRecord.Subdivisions ELSE @ ]

\* Merger.buildMergedRecord
BuildMergedRecord(network, geoRecord, record) ==
    LET base == IF GeoLite2CityHasGeoData(geoRecord)
                THEN FromGeoLiteCity(geoRecord, record) ELSE record
        ip == network.start
    IN  EnrichWithQQWryData(ip,
            EnrichWithCountryFallback(ip, EnrichWithASNData(ip, base)))

\* The copy of the DB-IP record into the merged record.
FromDBIP(dbipRecord, record) ==
    [ record EXCEPT
        !.City = [GeonameID |-> 0, Names |-> [l \in {"en"} |-> dbipRecord.City]],
        !.Country = [GeonameID |-> 0, ISOCode |-> dbipRecord.CountryCode, Names |-> NoNames],
        !.Location = IF DBIPHasLocationData(dbipRecord)
                     THEN [ AccuracyRadius |-> 0,
                            Latitude |-> dbipRecord.Latitude,
                            Longitude |-> dbipRecord.Longitude,
                            MetroCode |-> 0,
                            TimeZone |-> dbipRecord.Timezone,
                            HasCoordinates |-> TRUE ]
                     ELSE @,
        !.Postal = IF dbipRecord.Postcode # "" THEN [Code |-> dbipRecord.Postcode] ELSE @,
        !.Subdivisions = IF dbipRecord.State1 # ""
                         THEN << [GeonameID |-> 0, ISOCode |-> "",
                                  Names |-> [l \in {"en"} |-> dbipRecord.State1]] >>
                         ELSE @ ]

\* Merger.buildMergedRecordFromDBIP
BuildMergedRecordFromDBIP(network, dbipRecord, record) ==
    LET base == IF DBIPHasGeoData(dbipRecord) THEN FromDBIP(dbipRecord, record) ELSE record
        ip == network.start
    IN  EnrichWithQQWryData(ip,
            EnrichWithCountryFallback(ip, EnrichWithASNData(ip, base)))

---------------------------------------------------------------------------
(* Output trie (mmdbwriter.Tree)                                           *)

\* Tree.Insert: the data replaces whatever the tree held inside the network.
TreeInsert(t, network, data) ==
    [a \in DOMAIN t \cup AddrsOf(network) |->
        IF Contains(network, a) THEN data ELSE t[a]]

\* mergeMMDBMaps descending into the maps both records have: the existing
\* sub-keys win and the new record fills the sub-keys that are missing.
MergeMMDBMapsDeep(existing, new) ==
    [k \in DOMAIN existing \cup DOMAIN new |->
        IF k \notin DOMAIN existing THEN new[k]
        ELSE IF k \notin DOMAIN new \/ k = "subdivisions" THEN existing[k]
        ELSE [j \in DOMAIN existing[k] \cup DOMAIN new[k] |->
                 IF j \in DOMAIN existing[k] THEN existing[k][j] ELSE new[k][j]]]

\* mergeMMDBMaps with the two loops in the other order: the new map's keys win.
MergeMMDBMapsNewWins(existing, new) ==
    [k \in DOMAIN existing \cup DOMAIN new |->
        IF k \in DOMAIN new THEN new[k] ELSE existing[k]]

\* mergeMMDBMaps: the existing map's keys win, the new map fills the others
MergeMMDBMaps(existing, new) ==
    [k \in DOMAIN existing \cup DOMAIN new |->
        IF k \in DOMAIN existing THEN existing[k] ELSE new[k]]

\* Merger.insertWithMerge: Tree.InsertFunc calls the merge function on the
\* data of every part of the network, with nil where the tree holds nothing.
InsertWithMerge(t, network, record) ==
    [a \in DOMAIN t \cup AddrsOf(network) |->
        IF ~Contains(network, a) THEN t[a]
        ELSE IF a \in DOMAIN t THEN MergeMMDBMaps(t[a], ToMMDBType(record))
        ELSE ToMMDBType(record)]

---------------------------------------------------------------------------
(* Prefix walker, sequential form (Merger.Merge)                           *)

ZeroStats ==
    [ TotalNetworks |-> 0, GeoLiteCityHits |-> 0, GeoLiteASNHits |-> 0,
      IPinfoLiteHits |-> 0, DBIPHits |-> 0, RouteViewsASNHits |-> 0,
      GeoWhoisCountryHits |-> 0, QQWryHits |-> 0, OpenproxyDBHits |-> 0,
      EmptyRecords |-> 0, ProcessedNetworks |-> 0 ]

One(cond) == IF cond THEN 1 ELSE 0

\* The hit counters the three enrichers of the Merger bump for one network
\* whose merged record is base before enrichment.
EnrichStats(s, ip, base) ==
    [ s EXCEPT
        !.IPinfoLiteHits = @ + One(ASNSource(ip) = "ipinfo"),
        !.GeoLiteASNHits = @ + One(ASNSource(ip) = "geolite"),
        !.RouteViewsASNHits = @ + One(ASNSource(ip) = "routeviews"),
        !.GeoWhoisCountryHits = @ + One(CountryFallbackHit(ip, base)),
        !.QQWryHits = @ + One(QQWryHit(ip, EnrichWithCountryFallback(ip, base))) ]

\* One iteration of the loop of processGeoLiteCityNetworks.
Pass1Step ==
    /\ pc = "pass1"
    /\ idx <= Len(db.geoLiteCity)
    /\ LET network == db.geoLiteCity[idx].net
           geoRecord == db.geoLiteCity[idx].rec
           base == IF GeoLite2CityHasGeoData(geoRecord)
                   THEN FromGeoLiteCity(geoRecord, Reset(mrecord)) ELSE Reset(mrecord)
           built == BuildMergedRecord(network, geoRecord, Reset(mrecord))
           counted == EnrichStats(
                        [stats EXCEPT !.TotalNetworks = @ + 1,
                                      !.GeoLiteCityHits = @ + One(GeoLite2CityHasGeoData(geoRecord))],
                        network.start, base)
       IN  IF network \in faults.decode
           THEN UNCHANGED <<tree, stats, mrecord>>
           ELSE /\ mrecord' = built
                /\ IF IsEmpty(built)
                   THEN /\ stats' = [counted EXCEPT !.EmptyRecords = @ + 1]
                        /\ tree' = tree
                   ELSE IF network \in faults.insert
                   THEN /\ stats' = counted
                        /\ tree' = tree
                   ELSE /\ stats' = [counted EXCEPT !.ProcessedNetworks = @ + 1]
                        /\ tree' = TreeInsert(tree, network, ToMMDBType(built))
    /\ idx' = idx + 1
    /\ UNCHANGED <<ioVars, db, pc, pool, workers, serializer>>

\* Merge going on to processDBIPNetworks while the GeoLite2-City iterator
\* still has networks.
Pass1DoneEarly ==
    /\ pc = "pass1"
    /\ pc' = "dbip4"
    /\ idx' = 1
    /\ mrecord' = ZeroMergedRecord
    /\ UNCHANGED <<ioVars, db, tree, stats, pool, workers, serializer>>

\* processGeoLiteCityNetworks returns; Merge goes on to processDBIPNetworks.
Pass1Done ==
    /\ pc = "pass1"
    /\ idx > Len(db.geoLiteCity)
    /\ pc' = "dbip4"
    /\ idx' = 1
    /\ mrecord' = ZeroMergedRecord
    /\ UNCHANGED <<ioVars, db, tree, stats, pool, workers, serializer>>

DBIPLeaves == IF pc = "dbip4" THEN db.dbipV4 ELSE db.dbipV6

\* processDBIPReader without the GeoLite2-City lookup.
Pass2HandlesEveryNetwork(network, dbipRecord) == DBIPHasGeoData(dbipRecord)

\* Whether processDBIPReader goes past its two early continues for a network.
Pass2Handles(network, dbipRecord) ==
    /\ DBIPHasGeoData(dbipRecord)
    /\ ~GeoLite2CityHasGeoData(LookupGeoLiteCity(network.start))

\* One iteration of the loop of processDBIPReader.
Pass2Step ==
    /\ pc \in {"dbip4", "dbip6"}
    /\ idx <= Len(DBIPLeaves)
    /\ LET network == DBIPLeaves[idx].net
           dbipRecord == DBIPLeaves[idx].rec
           base == IF DBIPHasGeoData(dbipRecord)
                   THEN FromDBIP(dbipRecord, Reset(mrecord)) ELSE Reset(mrecord)
           built == BuildMergedRecordFromDBIP(network, dbipRecord, Reset(mrecord))
           counted == EnrichStats([stats EXCEPT !.TotalNetworks = @ + 1], network.start, base)
       IN  IF network \in faults.decode \/ ~Pass2Handles(network, dbipRecord)
           THEN UNCHANGED <<tree, stats, mrecord>>
           ELSE /\ mrecord' = built
                /\ IF IsEmpty(built)
                   THEN /\ stats' = [counted EXCEPT !.EmptyRecords = @ + 1]
                        /\ tree' = tree
                   ELSE IF network \in faults.insert
                   THEN /\ stats' = counted
                        /\ tree' = tree
                   ELSE /\ stats' = [counted EXCEPT !.DBIPHits = @ + 1,
                                                    !.ProcessedNetworks = @ + 1]
                        /\ tree' = InsertWithMerge(tree, network, built)
    /\ idx' = idx + 1
    /\ UNCHANGED <<ioVars, db, pc, pool, workers, serializer>>

\* processDBIPReader returns: the IPv6 reader follows the IPv4 reader.
Pass2Done ==
    /\ pc \in {"dbip4", "dbip6"}
    /\ idx > Len(DBIPLeaves)
    /\ pc' = IF pc = "dbip4" THEN "dbip6" ELSE "done"
    /\ idx' = 1
    /\ mrecord' = ZeroMergedRecord
    /\ UNCHANGED <<ioVars, db, tree, stats, pool, workers, serializer>>

Next == Pass1Step \/ Pass1Done \/ Pass2Step \/ Pass2Done

---------------------------------------------------------------------------
(* Prefix walker, parallel form: the worker pool of Pass 1                 *)

\* Number of workers of the pool.
NumWorkers == 2
\* Slots of the work channel per worker.
WorkSlotsPerWorker == 1
\* Slots of the result channel per worker.
ResultSlotsPerWorker == 1

WorkerIds == 1..NumWorkers

ZeroWorkerStats ==
    [ geoLiteCityHits |-> 0, geoLiteASNHits |-> 0, ipinfoLiteHits |-> 0,
      routeViewsASNHits |-> 0, geoWhoisCountryHits |-> 0, qqwryHits |-> 0,
      openproxyDBHits |-> 0, emptyRecords |-> 0, processedNetworks |-> 0 ]

\* A workerContext as newWorkerPool makes it; cachedASNNetwork is the empty
\* set for nil and a one-element set otherwise.
NewWorkerContext ==
    [ reusableMergedRecord |-> ZeroMergedRecord,
      cachedASN |-> ZeroASN, cachedASNNetwork |-> {}, cachedASNValid |-> FALSE,
      stats |-> ZeroWorkerStats ]

\* newWorkerPool
NewWorkerPool ==
    [ workChan |-> << >>, workClosed |-> FALSE,
      resultChan |-> << >>, resultClosed |-> FALSE,
      totalNetworks |-> 0,
      contexts |-> [w \in WorkerIds |-> NewWorkerContext] ]

WorkChanSize == NumWorkers * WorkSlotsPerWorker
ResultChanSize == NumWorkers * ResultSlotsPerWorker

\* The cache test of enrichWithASNData without the test of the cached
\* network: a valid cache answers for every address.
ASNCacheHitAnyPrefix(ctx, ip) == ctx.cachedASNValid

ASNCacheHit(ctx, ip) ==
    /\ ctx.cachedASNValid
    /\ \E n \in ctx.cachedASNNetwork : Contains(n, ip)

\* workerContext.enrichWithASNData; past the cache check the three sources
\* are tried in the order of Merger.enrichWithASNData.
WorkerEnrichWithASNData(ctx, ip) ==
    IF ASNCacheHit(ctx, ip)
    THEN IF ctx.cachedASN.Number # 0
         THEN [ctx EXCEPT !.reusableMergedRecord.ASN = ctx.cachedASN]
         ELSE ctx
    ELSE LET enriched == EnrichWithASNData(ip, ctx.reusableMergedRecord)
         IN  [ ctx EXCEPT
                 !.reusableMergedRecord = enriched,
                 !.cachedASN = IF ASNSource(ip) = "none" THEN ZeroASN ELSE enriched.ASN,
                 !.cachedASNNetwork = {},
                 !.cachedASNValid = TRUE,
                 !.stats.ipinfoLiteHits = @ + One(ASNSource(ip) = "ipinfo"),
                 !.stats.geoLiteASNHits = @ + One(ASNSource(ip) = "geolite"),
                 !.stats.routeViewsASNHits = @ + One(ASNSource(ip) = "routeviews") ]

\* workerContext.enrichWithCountryFallback
WorkerEnrichWithCountryFallback(ctx, ip) ==
    [ ctx EXCEPT
        !.reusableMergedRecord = EnrichWithCountryFallback(ip, @),
        !.stats.geoWhoisCountryHits =
            @ + One(CountryFallbackHit(ip, ctx.reusableMergedRecord)) ]

\* workerContext.enrichWithQQWryData
WorkerEnrichWithQQWryData(ctx, ip) ==
    [ ctx EXCEPT
        !.reusableMergedRecord = EnrichWithQQWryData(ip, @),
        !.stats.qqwryHits = @ + One(QQWryHit(ip, ctx.reusableMergedRecord)) ]

\* workerContext.enrichWithProxyData
EnrichWithProxyData(ctx, ip) ==
    IF ~ProxyFound(db.openproxyDB, ip) THEN ctx
    ELSE [ ctx EXCEPT
             !.stats.openproxyDBHits = @ + 1,
             !.reusableMergedRecord.Proxy = ProxyLookup(db.openproxyDB, ip) ]

\* workerContext.buildMergedRecord
WorkerBuildMergedRecord(ctx, network, geoRecord) ==
    LET copied == IF GeoLite2CityHasGeoData(geoRecord)
                  THEN [ ctx EXCEPT
                           !.stats.geoLiteCityHits = @ + 1,
                           !.reusableMergedRecord = FromGeoLiteCity(geoRecord, @) ]
                  ELSE ctx
        ip == network.start
    IN  EnrichWithProxyData(
            WorkerEnrichWithQQWryData(
                WorkerEnrichWithCountryFallback(
                    WorkerEnrichWithASNData(copied, ip), ip), ip), ip)

\* processWorkItem with processedNetworks counted before the emptiness
\* test, so that an empty record is counted twice.
ProcessWorkItemCountingFirst(ctx, item) ==
    LET built == WorkerBuildMergedRecord(
                     [ctx EXCEPT !.reusableMergedRecord = Reset(@),
                                 !.stats.processedNetworks = @ + 1],
                     item.network, item.geoRecord)
    IN  IF IsEmpty(built.reusableMergedRecord)
        THEN [ ctx |-> [built EXCEPT !.stats.emptyRecords = @ + 1],
               result |-> [network |-> item.network, mmdbRecord |-> << >>] ]
        ELSE [ ctx |-> built,
               result |-> [ network |-> item.network,
                            mmdbRecord |-> ToMMDBType(built.reusableMergedRecord) ] ]

\* workerContext.processWorkItem: the context afterwards and the resultItem;
\* the map with no key stands for a nil mmdbRecord.
ProcessWorkItem(ctx, item) ==
    LET built == WorkerBuildMergedRecord(
                     [ctx EXCEPT !.reusableMergedRecord = Reset(@)],
                     item.network, item.geoRecord)
    IN  IF IsEmpty(built.reusableMergedRecord)
        THEN [ ctx |-> [built EXCEPT !.stats.emptyRecords = @ + 1],
               result |-> [network |-> item.network, mmdbRecord |-> << >>] ]
        ELSE [ ctx |-> [built EXCEPT !.stats.processedNetworks = @ + 1],
               result |-> [ network |-> item.network,
                            mmdbRecord |-> ToMMDBType(built.reusableMergedRecord) ] ]

RECURSIVE SumOver(_, _)
SumOver(W, f) ==
    IF W = {} THEN 0
    ELSE LET w == CHOOSE x \in W : TRUE IN f[w] + SumOver(W \ {w}, f)

\* workerPool.aggregateStats
AggregateStats ==
    LET sum(field) == SumOver(WorkerIds, [w \in WorkerIds |-> pool.contexts[w].stats[field]])
    IN  [ ZeroStats EXCEPT
            !.TotalNetworks = pool.totalNetworks,
            !.GeoLiteCityHits = sum("geoLiteCityHits"),
            !.GeoLiteASNHits = sum("geoLiteASNHits"),
            !.IPinfoLiteHits = sum("ipinfoLiteHits"),
            !.RouteViewsASNHits = sum("routeViewsASNHits"),
            !.GeoWhoisCountryHits = sum("geoWhoisCountryHits"),
            !.QQWryHits = sum("qqwryHits"),
            !.OpenproxyDBHits = sum("openproxyDBHits"),
            !.EmptyRecords = sum("emptyRecords"),
            !.ProcessedNetworks = sum("processedNetworks") ]

\* The producer: workerPool.submit of the next GeoLite2-City network; the
\* send blocks while the work channel is full.
Submit ==
    /\ pc = "submit"
    /\ idx <= Len(db.geoLiteCity)
    /\ Len(pool.workChan) < WorkChanSize
    /\ pool' = [ pool EXCEPT
                   !.totalNetworks = @ + 1,
                   !.workChan = Append(@, [ network |-> db.geoLiteCity[idx].net,
                                            geoRecord |-> db.geoLiteCity[idx].rec ]) ]
    /\ idx' = idx + 1
    /\ UNCHANGED <<ioVars, db, pc, tree, stats, mrecord, workers, serializer>>

\* The producer at the end of the stream moving on to wait() with the work
\* channel left open.
CloseWorkLeavingOpen ==
    /\ pc = "submit"
    /\ idx > Len(db.geoLiteCity)
    /\ pc' = "wait"
    /\ UNCHANGED <<ioVars, db, idx, tree, stats, mrecord, pool, workers, serializer>>

\* The producer at the end of the stream: workerPool.closeWork
CloseWork ==
    /\ pc = "submit"
    /\ idx > Len(db.geoLiteCity)
    /\ pool' = [pool EXCEPT !.workClosed = TRUE]
    /\ pc' = "wait"
    /\ UNCHANGED <<ioVars, db, idx, tree, stats, mrecord, workers, serializer>>

\* workerPool.worker: receive one item and process it; a non-nil result is
\* held until the result channel takes it.
WorkerReceive(w) ==
    /\ workers[w].at = "recv"
    /\ pool.workChan # << >>
    /\ LET out == ProcessWorkItem(pool.contexts[w], Head(pool.workChan))
       IN  /\ pool' = [ pool EXCEPT !.workChan = Tail(@), !.contexts[w] = out.ctx ]
           /\ workers' = [ workers EXCEPT ![w] =
                             IF IsNil(out.result.mmdbRecord)
                             THEN [at |-> "recv", held |-> << >>]
                             ELSE [at |-> "send", held |-> <<out.result>>] ]
    /\ UNCHANGED <<ioVars, db, pc, idx, tree, stats, mrecord, serializer>>

\* workerPool.worker: the send on the result channel
WorkerSend(w) ==
    /\ workers[w].at = "send"
    /\ Len(pool.resultChan) < ResultChanSize
    /\ pool' = [pool EXCEPT !.resultChan = Append(@, workers[w].held[1])]
    /\ workers' = [workers EXCEPT ![w] = [at |-> "recv", held |-> << >>]]
    /\ UNCHANGED <<ioVars, db, pc, idx, tree, stats, mrecord, serializer>>

\* workerPool.worker: the range loop ends on the closed, drained channel
WorkerExit(w) ==
    /\ workers[w].at = "recv"
    /\ pool.workChan = << >>
    /\ pool.workClosed
    /\ workers' = [workers EXCEPT ![w] = [at |-> "exited", held |-> << >>]]
    /\ UNCHANGED <<ioVars, db, pc, idx, tree, stats, mrecord, pool, serializer>>

\* workerPool.wait closing the result channel without wg.Wait().
WaitWithoutWorkers ==
    /\ pc = "wait"
    /\ pool' = [pool EXCEPT !.resultClosed = TRUE]
    /\ pc' = "join"
    /\ UNCHANGED <<ioVars, db, idx, tree, stats, mrecord, workers, serializer>>

\* workerPool.wait: every worker is done, the result channel is closed
Wait ==
    /\ pc = "wait"
    /\ \A w \in WorkerIds : workers[w].at = "exited"
    /\ pool' = [pool EXCEPT !.resultClosed = TRUE]
    /\ pc' = "join"
    /\ UNCHANGED <<ioVars, db, idx, tree, stats, mrecord, workers, serializer>>

\* The serializer: one result leaves the channel and is inserted.
SerializerInsert ==
    /\ serializer = "running"
    /\ pool.resultChan # << >>
    /\ tree' = TreeInsert(tree, Head(pool.resultChan).network,
                          Head(pool.resultChan).mmdbRecord)
    /\ pool' = [pool EXCEPT !.resultChan = Tail(@)]
    /\ UNCHANGED <<ioVars, db, pc, idx, stats, mrecord, workers, serializer>>

\* The serializer leaves its loop on the closed, drained result channel.
SerializerExit ==
    /\ serializer = "running"
    /\ pool.resultChan = << >>
    /\ pool.resultClosed
    /\ serializer' = "exited"
    /\ UNCHANGED <<ioVars, db, pc, idx, tree, stats, mrecord, pool, workers>>

\* Pass 1 is over: the statistics are aggregated and Pass 2 begins.
Join ==
    /\ pc = "join"
    /\ serializer = "exited"
    /\ stats' = AggregateStats
    /\ pc' = "dbip4"
    /\ idx' = 1
    /\ UNCHANGED <<ioVars, db, tree, mrecord, pool, workers, serializer>>

NextPool ==
    \/ Submit
    \/ CloseWork
    \/ \E w \in WorkerIds : WorkerReceive(w)
    \/ \E w \in WorkerIds : WorkerSend(w)
    \/ \E w \in WorkerIds : WorkerExit(w)
    \/ Wait
    \/ SerializerInsert
    \/ SerializerExit
    \/ Join
    \/ Pass2Step
    \/ Pass2Done

---------------------------------------------------------------------------
(* Source databases of the runs                                            *)

En(name) == [l \in {"en"} |-> name]

EnZh(name, zh) == [l \in {"en", "zh-CN"} |-> IF l = "en" THEN name ELSE zh]

\* GeoLite2-City records: a full one, one with a country only, one with a
\* location only (no geo data), one with only a time zone as location.
GeoFull ==
    [ ZeroGeoLite2CityRecord EXCEPT
        !.City = [GeonameID |-> 5, Names |-> En("Berlin")],
        !.Continent = [Code |-> "EU", GeonameID |-> 8, Names |-> En("Europe")],
        !.Country = [GeonameID |-> 6, ISOCode |-> "DE", Names |-> En("Germany")],
        !.Location = [ AccuracyRadius |-> 10, Latitude |-> 52, Longitude |-> 13,
                       MetroCode |-> 0, TimeZone |-> "Europe/Berlin" ],
        !.Postal = [Code |-> "10115"],
        !.RegisteredCountry = [GeonameID |-> 6, ISOCode |-> "DE", Names |-> En("Germany")],
        !.Subdivisions = << [GeonameID |-> 7, ISOCode |-> "BE", Names |-> En("Land Berlin")] >> ]

GeoCountryOnly ==
    [ ZeroGeoLite2CityRecord EXCEPT
        !.Country = [GeonameID |-> 9, ISOCode |-> "US", Names |-> En("United States")] ]

GeoLocationOnly ==
    [ ZeroGeoLite2CityRecord EXCEPT
        !.Location = [ AccuracyRadius |-> 0, Latitude |-> 1, Longitude |-> 2,
                       MetroCode |-> 0, TimeZone |-> "" ] ]

GeoTimeZoneOnly ==
    [ ZeroGeoLite2CityRecord EXCEPT
        !.City = [GeonameID |-> 4, Names |-> NoNames],
        !.Location = [ AccuracyRadius |-> 0, Latitude |-> 0, Longitude |-> 0,
                       MetroCode |-> 0, TimeZone |-> "UTC" ] ]

\* DB-IP records: a full one, a city without a country, a country with a
\* time zone and no coordinates, and one with a postcode only (no geo data).
DBIPFull ==
    [ City |-> "Tokyo", CountryCode |-> "JP", Latitude |-> 35, Longitude |-> 139,
      Postcode |-> "100", State1 |-> "Kanto", State2 |-> "", Timezone |-> "Asia/Tokyo" ]

DBIPCityOnly == [ZeroDBIPCityRecord EXCEPT !.City = "Paris"]

DBIPCountryTZ ==
    [ZeroDBIPCityRecord EXCEPT !.CountryCode = "BR", !.Timezone = "America/Sao_Paulo"]

DBIPPostcodeOnly == [ZeroDBIPCityRecord EXCEPT !.Postcode = "999"]

\* IPinfo Lite records: a well-formed asn, and an asn that is not a number.
IPinfoAS15 ==
    [ASN |-> <<"A", "S", "1", "5">>, ASName |-> "Fifteen Net", ASDomain |-> "fifteen.example"]

IPinfoBadASN == [ASN |-> <<"A", "S", "x">>, ASName |-> "Bad Net", ASDomain |-> ""]

GeoLiteAS20 ==
    [AutonomousSystemNumber |-> 20, AutonomousSystemOrganization |-> "Twenty Net"]

ASNOrgOnly ==
    [AutonomousSystemNumber |-> 0, AutonomousSystemOrganization |-> "Nameless Net"]

RouteViewsAS30 ==
    [AutonomousSystemNumber |-> 30, AutonomousSystemOrganization |-> "Thirty Net"]

WholeSpace == [start |-> 0, bits |-> 0]

Single(rec) == << [net |-> WholeSpace, rec |-> rec] >>

NoProxyList == [singleIPs |-> [a \in {} |-> ZeroProxy], cidrRanges |-> << >>]

\* No proxy list is being loaded and no lookup has been made.
NoLoader == [ file |-> [header |-> "ok", rows |-> << >>], at |-> "ready", pos |-> 1,
              singleIPs |-> [a \in {} |-> ZeroProxy], cidrRanges |-> << >> ]

NoProbe == [called |-> FALSE, addr |-> 0, found |-> FALSE, record |-> ZeroProxy]

\* Every record decodes and the tree accepts every network.
NoFaults == [decode |-> {}, insert |-> {}]

\* The files New opens, and the readers it puts in its closers, in order.
SourceFiles ==
    { "GeoLite2City", "GeoLite2ASN", "IPinfoLite", "DBIPCityIPv4", "DBIPCityIPv6",
      "RouteViewsASN", "GeoWhoisCountry", "QQWry" }

NewSteps ==
    << "geoLiteCity", "geoLiteASN", "ipinfoLite", "dbipCity", "routeViewsASN",
       "geoWhoisCountry", "qqwry" >>

\* The files a reader's Open function opens.
FilesOf(r) ==
    CASE r = "geoLiteCity" -> {"GeoLite2City"}
      [] r = "geoLiteASN" -> {"GeoLite2ASN"}
      [] r = "ipinfoLite" -> {"IPinfoLite"}
      [] r = "dbipCity" -> {"DBIPCityIPv4", "DBIPCityIPv6"}
      [] r = "routeViewsASN" -> {"RouteViewsASN"}
      [] r = "geoWhoisCountry" -> {"GeoWhoisCountry"}
      [] r = "qqwry" -> {"QQWry"}

\* The files a reader keeps open until Close: ipdb.NewCity loads the file
\* into memory and QQWryReader.Close has nothing to release.
HandlesOf(r) == IF r = "qqwry" THEN {} ELSE FilesOf(r)

\* New returned a Merger holding every reader.
BuiltMerger ==
    [ at |-> "returned", n |-> Len(NewSteps) + 1, broken |-> {}, treeErr |-> FALSE,
      handles |-> SourceFiles \ {"QQWry"}, closers |-> NewSteps, closeCalls |-> {},
      result |-> "merger" ]

\* An empty output trie.
EmptyTree == [a \in {} |-> << >>]

NoFile == [exists |-> FALSE, data |-> EmptyTree, complete |-> FALSE]

\* Writer.Write has not been called.
NoWrite ==
    [ at |-> "idle", failing |-> {}, out |-> NoFile, tmp |-> NoFile, err |-> FALSE,
      ret |-> "none" ]

\* A string value: its text and the allocation that holds it.
Str(text, copy) == [text |-> text, copy |-> copy]

\* interner.Init: the pool holds the common strings, each under its text.
InitialPool == [t \in {"en"} |-> Str(t, 0)]

\* The interner after Init with no call of Intern under way.
NoInternCalls ==
    [ pool |-> InitialPool, hits |-> 0, misses |-> 0, savings |-> 0,
      calls |-> << >> ]

\* The components outside the merge are at rest.
IdleIO ==
    /\ loader = NoLoader
    /\ probe = NoProbe
    /\ ctor = BuiltMerger
    /\ fs = NoWrite
    /\ interner = NoInternCalls

\* The state after New when the sequential Merge starts, whatever the faults.
InitMerge(G, D4, D6, IP, GA, RV, GW, QQ, PX) ==
    /\ db \in [ geoLiteCity : G, dbipV4 : D4, dbipV6 : D6, ipinfoLite : IP,
                geoLiteASN : GA, routeViewsASN : RV, geoWhoisCountry : GW,
                qqwry : QQ, openproxyDB : PX ]
    /\ pc = "pass1"
    /\ idx = 1
    /\ tree = [a \in {} |-> << >>]
    /\ stats = ZeroStats
    /\ mrecord = ZeroMergedRecord
    /\ pool = NewWorkerPool
    /\ workers = [w \in WorkerIds |-> [at |-> "exited", held |-> << >>]]
    /\ serializer = "exited"
    /\ IdleIO

\* The state after New when the sequential Merge starts on sound sources.
InitWith(G, D4, D6, IP, GA, RV, GW, QQ, PX) ==
    /\ InitMerge(G, D4, D6, IP, GA, RV, GW, QQ, PX)
    /\ faults = NoFaults

\* Runs over every layout of GeoLite2-City and DB-IP leaves.
Init ==
    InitWith(Databases(Addrs, MaxGeoLeaves,
                       {ZeroGeoLite2CityRecord, GeoFull, GeoCountryOnly, GeoLocationOnly}),
             Databases(V4Addrs, MaxDBIPLeaves,
                       {DBIPFull, DBIPCityOnly, DBIPCountryTZ, DBIPPostcodeOnly}),
             Databases(V6Addrs, MaxDBIPLeaves, {DBIPFull}),
             {<< >>, Single(IPinfoAS15), Single(IPinfoBadASN)},
             {<< >>}, {<< >>}, {<< >>}, {<< >>}, {NoProxyList})

Spec == Init /\ [][Next]_vars

\* GeoLite2-City records of Chinese networks: names in English only, and
\* names that already carry zh-CN.
GeoCNPlain ==
    [ ZeroGeoLite2CityRecord EXCEPT
        !.City = [GeonameID |-> 3, Names |-> En("Shenzhen")],
        !.Country = [GeonameID |-> 2, ISOCode |-> "CN", Names |-> En("China")],
        !.Subdivisions = << [GeonameID |-> 1, ISOCode |-> "GD", Names |-> En("Guangdong")] >> ]

GeoCNWithZh ==
    [ ZeroGeoLite2CityRecord EXCEPT
        !.City = [GeonameID |-> 3, Names |-> EnZh("Shenzhen", "geo-ShenzhenZh")],
        !.Country = [GeonameID |-> 2, ISOCode |-> "CN", Names |-> EnZh("China", "geo-ChinaZh")],
        !.Subdivisions = << [ GeonameID |-> 1, ISOCode |-> "GD",
                              Names |-> EnZh("Guangdong", "geo-GuangdongZh") ] >> ]

DBIPChina == [ZeroDBIPCityRecord EXCEPT !.City = "Shenzhen", !.CountryCode = "CN",
                                        !.State1 = "Guangdong"]

\* QQWry records: country, region and city; a region alone under a CN
\* country code; a record of another country.
QQWryFull ==
    [ ZeroQQWryRecord EXCEPT !.CountryName = ChinaName, !.CountryCode = "CN",
                             !.RegionName = "qq-GuangdongZh", !.CityName = "qq-ShenzhenZh" ]

QQWryRegionOnly ==
    [ZeroQQWryRecord EXCEPT !.CountryCode = "CN", !.RegionName = "qq-GuangdongZh"]

QQWryAbroad ==
    [ZeroQQWryRecord EXCEPT !.CountryName = "RiBen", !.CountryCode = "JP", !.CityName = "qq-TokyoZh"]

GeoWhoisFR == [CountryCode |-> "FR"]

\* Runs over the layouts of the three ASN databases under GeoLite2-City
\* leaves that carry a country.
InitASN ==
    InitWith(Databases(Addrs, MaxGeoLeaves, {GeoCountryOnly}),
             Databases(V4Addrs, MaxDBIPLeaves, {DBIPCityOnly}),
             {<< >>},
             Databases(Addrs, MaxAuxLeaves, {IPinfoAS15, IPinfoBadASN}),
             Databases(Addrs, MaxAuxLeaves, {GeoLiteAS20, ASNOrgOnly}),
             {<< >>, Single(RouteViewsAS30)},
             {<< >>}, {<< >>}, {NoProxyList})

SpecASN == InitASN /\ [][Next]_vars

\* Runs over the layouts of the country fallback under GeoLite2-City leaves
\* with and without a country.
InitCountry ==
    InitWith(Databases(Addrs, MaxGeoLeaves,
                       {ZeroGeoLite2CityRecord, GeoCountryOnly, GeoTimeZoneOnly}),
             Databases(V4Addrs, MaxDBIPLeaves, {DBIPCityOnly, DBIPCountryTZ}),
             {<< >>},
             {<< >>, Single(IPinfoAS15)},
             {<< >>}, {<< >>},
             Databases(Addrs, MaxAuxLeaves, {GeoWhoisFR}),
             {<< >>}, {NoProxyList})

SpecCountry == InitCountry /\ [][Next]_vars

\* Runs over Chinese networks and the layouts of the QQWry database.
InitCN ==
    InitWith(Databases(Addrs, MaxGeoLeaves, {GeoCNPlain, GeoCNWithZh}),
             Databases(V4Addrs, MaxDBIPLeaves, {DBIPChina}),
             {<< >>},
             {<< >>}, {<< >>}, {<< >>}, {<< >>},
             Databases(Addrs, MaxAuxLeaves, {QQWryFull, QQWryRegionOnly, QQWryAbroad}),
             {NoProxyList})

SpecCN == InitCN /\ [][Next]_vars

\* A data row of the proxy list file: the ip column as a prefix (a single
\* address has the full bit length and cidr FALSE) and the flag columns
\* after parseBool.
ProxyRow(cidr, prefix, vpn, tor) ==
    [ cidr |-> cidr, prefix |-> prefix, anonblock |-> FALSE, proxy |-> FALSE,
      vpn |-> vpn, cdn |-> FALSE, rangeblock |-> FALSE, school |-> FALSE,
      tor |-> tor, webhost |-> FALSE ]

RowFlags == { <<TRUE, FALSE>>, <<FALSE, TRUE>>, <<FALSE, FALSE>> }

ProxyRows ==
    { ProxyRow(FALSE, [start |-> a, bits |-> AddrBits], f[1], f[2]) :
        a \in Addrs, f \in RowFlags }
    \cup { ProxyRow(TRUE, p, f[1], f[2]) :
        p \in { q \in AllPrefixes : q.bits >= 1 }, f \in RowFlags }

ProxyFiles == UNION { [1..n -> ProxyRows] : n \in 0..MaxProxyRows }

\* Runs of the worker pool over the layouts of GeoLite2-City leaves and the
\* proxy list files; the pool is started, the serializer is draining.
InitPool ==
    /\ db \in [ geoLiteCity : Databases(Addrs, MaxGeoLeaves, {GeoCountryOnly}),
                dbipV4 : {<< [net |-> [start |-> 0, bits |-> 1], rec |-> DBIPCityOnly] >>},
                dbipV6 : {<< >>},
                ipinfoLite : {<< >>}, geoLiteASN : {<< >>}, routeViewsASN : {<< >>},
                geoWhoisCountry : {<< >>}, qqwry : {<< >>},
                openproxyDB : UNION { OpenOpenproxyDB(rows) : rows \in ProxyFiles } ]
    /\ pc = "submit"
    /\ idx = 1
    /\ tree = [a \in {} |-> << >>]
    /\ stats = ZeroStats
    /\ mrecord = ZeroMergedRecord
    /\ pool = NewWorkerPool
    /\ workers = [w \in WorkerIds |-> [at |-> "recv", held |-> << >>]]
    /\ serializer = "running"
    /\ IdleIO
    /\ faults = NoFaults

SpecPool == InitPool /\ [][NextPool]_vars

---------------------------------------------------------------------------
(* Properties of the output trie                                           *)

HasKey(m, k) == k \in DOMAIN m

\* The value under sub-key k of the top-level map key of an output record,
\* the empty sequence where either key is missing.
Field(m, key, k) ==
    IF HasKey(m, key) /\ HasKey(m[key], k) THEN m[key][k] ELSE << >>

HasField(m, key, k) == HasKey(m, key) /\ HasKey(m[key], k)

InPass2 == pc \in {"dbip4", "dbip6"}

\* The leaf of a database covering an address (there is at most one).
LeafAt(leaves, a) == leaves[CHOOSE i \in 1..Len(leaves) : Contains(leaves[i].net, a)]

DBIPOf(a) == IF a \in V4Addrs THEN db.dbipV4 ELSE db.dbipV6

\* C1 (as stated): every record of the output trie has a country iso code,
\* a city geoname id, an AS number or coordinates.
C1_FourFactsInEveryRecord ==
    \A a \in DOMAIN tree :
        \/ HasField(tree[a], "country", "iso_code")
        \/ HasField(tree[a], "city", "geoname_id")
        \/ HasField(tree[a], "asn", "autonomous_system_number")
        \/ HasField(tree[a], "location", "latitude")

\* C1 (amended): every record of the output trie has a country iso code, a
\* city geoname id, a city name, an AS number or coordinates; a record with
\* none of the five never reaches the trie.
C1_NoEmptyRecordInTrie ==
    \A a \in DOMAIN tree :
        \/ HasField(tree[a], "country", "iso_code")
        \/ HasField(tree[a], "city", "geoname_id")
        \/ HasField(tree[a], "city", "names")
        \/ HasField(tree[a], "asn", "autonomous_system_number")
        \/ HasField(tree[a], "location", "latitude")

\* C1 witness: Pass 2 has put a record in the trie whose only fact is a
\* city name.
C1_CityNameOnlyRecord ==
    /\ InPass2
    /\ \E a \in DOMAIN tree :
        /\ HasField(tree[a], "city", "names")
        /\ ~HasField(tree[a], "country", "iso_code")
        /\ ~HasField(tree[a], "city", "geoname_id")
        /\ ~HasField(tree[a], "asn", "autonomous_system_number")
        /\ ~HasField(tree[a], "location", "latitude")

\* C6: a Pass-2 step keeps every address of the trie, keeps the value of
\* every top-level key a record had, and the keys it adds are those of the
\* Pass-2 record.
C6_Pass2KeepsExistingKeys ==
    [][ InPass2 =>
          \A a \in DOMAIN tree :
              /\ a \in DOMAIN tree'
              /\ \A k \in DOMAIN tree[a] : HasKey(tree'[a], k) /\ tree'[a][k] = tree[a][k]
              /\ \A k \in DOMAIN tree'[a] \ DOMAIN tree[a] :
                    /\ HasKey(ToMMDBType(mrecord'), k)
                    /\ tree'[a][k] = ToMMDBType(mrecord')[k] ]_vars

\* C6 witness: a record Pass 1 inserted now holds a top-level key it did
\* not have after Pass 1: a Pass-2 merge reached it and filled the key.
C6_MergeFilledAKey ==
    /\ InPass2
    /\ \E a \in DOMAIN tree :
        /\ Covers(db.geoLiteCity, a)
        /\ LET leaf == LeafAt(db.geoLiteCity, a)
               first == BuildMergedRecord(leaf.net, leaf.rec, ZeroMergedRecord)
           IN  /\ ~IsEmpty(first)
               /\ HasKey(ToMMDBType(first), "asn")
               /\ DOMAIN tree[a] # DOMAIN ToMMDBType(first)

\* C7: no Pass-2 step changes the output at an address for which
\* GeoLite2-City holds a record with geo data.
C7_Pass2LeavesGeoCityAddresses ==
    [][ InPass2 =>
          \A a \in Addrs :
              GeoLite2CityHasGeoData(LookupGeoLiteCity(a)) =>
                  /\ (a \in DOMAIN tree') = (a \in DOMAIN tree)
                  /\ a \in DOMAIN tree => tree'[a] = tree[a] ]_vars

\* The output record at a carries these coordinates and this time zone.
CarriesLocation(a, lat, lon, tz) ==
    /\ a \in DOMAIN tree
    /\ HasField(tree[a], "location", "latitude")
    /\ HasField(tree[a], "location", "longitude")
    /\ tree[a]["location"]["latitude"] = lat
    /\ tree[a]["location"]["longitude"] = lon
    /\ IF tz = "" THEN ~HasField(tree[a], "location", "time_zone")
       ELSE Field(tree[a], "location", "time_zone") = tz

C10_CoordinatesTogether ==
    [][ \A a \in DOMAIN tree' :
          HasKey(tree'[a], "location") =>
              /\ HasKey(tree'[a]["location"], "latitude")
                    = HasKey(tree'[a]["location"], "longitude")
              /\ (a \notin DOMAIN tree \/ ~HasKey(tree[a], "location")) =>
                    /\ tree'[a]["location"] = LocationToMMDB(mrecord'.Location)
                    /\ HasKey(tree'[a]["location"], "latitude")
                          = mrecord'.Location.HasCoordinates ]_vars

\* C10 witness: a record of the trie has latitude 0 and longitude 0, from a
\* source record whose only location datum is its time zone.
C10_ZeroCoordinatesEmitted ==
    \E a \in DOMAIN tree :
        /\ HasField(tree[a], "location", "latitude")
        /\ HasField(tree[a], "location", "longitude")
        /\ tree[a]["location"]["latitude"] = 0
        /\ tree[a]["location"]["longitude"] = 0

\* The value under sub-key k of the top-level key of the output record at
\* an address, as a set: empty where the address, the key or the sub-key is
\* missing.
Out(a, key, k) ==
    IF a \in DOMAIN tree /\ HasField(tree[a], key, k) THEN {tree[a][key][k]} ELSE {}

\* C2 (as stated): after both passes, at every address of the output trie
\* the AS number is ASN-Primary's when that is not zero, otherwise
\* ASN-Secondary's when it has one for the address, otherwise
\* ASN-Tertiary's, otherwise there is no AS number.
C2_ASNPriorityAtEveryAddress ==
    pc = "done" =>
        \A a \in DOMAIN tree :
            IF GetASNumber(LookupIPinfo(a)) # 0
            THEN Out(a, "asn", "autonomous_system_number") = {GetASNumber(LookupIPinfo(a))}
            ELSE IF GeoLite2ASNHasASN(LookupGeoLiteASN(a))
            THEN Out(a, "asn", "autonomous_system_number")
                    = {LookupGeoLiteASN(a).AutonomousSystemNumber}
            ELSE IF RouteViewsHasASN(LookupRouteViews(a))
            THEN Out(a, "asn", "autonomous_system_number")
                    = {LookupRouteViews(a).AutonomousSystemNumber}
            ELSE Out(a, "asn", "autonomous_system_number") = {}

\* The entries of cidrRanges containing an address with the largest bit length.
MostSpecificCIDR(r, a) ==
    { i \in 1..Len(r.cidrRanges) :
        /\ Contains(r.cidrRanges[i].prefix, a)
        /\ \A j \in 1..Len(r.cidrRanges) :
              Contains(r.cidrRanges[j].prefix, a)
                  => r.cidrRanges[j].prefix.bits <= r.cidrRanges[i].prefix.bits }

\* The proxy map of the output record at an address, empty when it has none.
OutProxy(a) == IF HasKey(tree[a], "proxy") THEN tree[a]["proxy"] ELSE << >>

\* C3 (as stated, at the addresses of the leaves Pass 1 inserted): after
\* both passes, at every such address that the proxy list covers, the proxy
\* flags are those of the single-IP row of the address, or else those of a
\* CIDR row containing the address with the largest bit length.
C3_ProxyFlagsAtEveryAddress ==
    pc = "done" =>
        \A a \in { x \in DOMAIN tree : Covers(db.geoLiteCity, x) } :
            IF a \in DOMAIN db.openproxyDB.singleIPs
            THEN OutProxy(a) = ProxyToMMDB(db.openproxyDB.singleIPs[a])
            ELSE MostSpecificCIDR(db.openproxyDB, a) # {} =>
                    \E i \in MostSpecificCIDR(db.openproxyDB, a) :
                        OutProxy(a) = ProxyToMMDB(db.openproxyDB.cidrRanges[i].record)

NonEmpty(str) == IF str = "" THEN {} ELSE {str}

CountryCandidates(a) ==
    (IF Covers(db.geoLiteCity, a)
     THEN NonEmpty(LookupGeoWhois(LeafAt(db.geoLiteCity, a).net.start).CountryCode)
     ELSE {})
    \cup
    (IF Covers(DBIPOf(a), a)
     THEN NonEmpty(LeafAt(DBIPOf(a), a).rec.CountryCode)
          \cup NonEmpty(LookupGeoWhois(LeafAt(DBIPOf(a), a).net.start).CountryCode)
     ELSE {})

Zh(names) == IF "zh-CN" \in DOMAIN names THEN {names["zh-CN"]} ELSE {}

\* The network a pass handles in the coming step.
StepLeaf == IF pc = "pass1" THEN db.geoLiteCity[idx] ELSE DBIPLeaves[idx]

\* The merged record of that network before the enrichers run: what the
\* primary source of the pass supplies.
StepPrimary ==
    IF pc = "pass1"
    THEN IF GeoLite2CityHasGeoData(StepLeaf.rec)
         THEN FromGeoLiteCity(StepLeaf.rec, ZeroMergedRecord) ELSE ZeroMergedRecord
    ELSE FromDBIP(StepLeaf.rec, ZeroMergedRecord)

FirstSubdivisionNames(r) ==
    IF Len(r.Subdivisions) = 0 THEN NoNames ELSE r.Subdivisions[1].Names

\* A step of a pass puts a new leaf in the trie at the first address of its
\* network, the record has country CN and QQWry has a Chinese entry there.
CNEnrichedStep ==
    /\ idx' = idx + 1
    /\ StepLeaf.net.start \notin DOMAIN tree
    /\ StepLeaf.net.start \in DOMAIN tree'
    /\ mrecord'.Country.ISOCode = "CN"
    /\ QQWryHasGeoData(LookupQQWry(StepLeaf.net.start))
    /\ QQWryIsChina(LookupQQWry(StepLeaf.net.start))

RECURSIVE ReferencePass1(_, _)
ReferencePass1(t, i) ==
    IF i > Len(db.geoLiteCity) THEN t
    ELSE LET out == ProcessWorkItem(NewWorkerContext,
                        [ network |-> db.geoLiteCity[i].net,
                          geoRecord |-> db.geoLiteCity[i].rec ])
         IN  ReferencePass1(IF IsNil(out.result.mmdbRecord) THEN t
                            ELSE TreeInsert(t, out.result.network, out.result.mmdbRecord),
                            i + 1)

\* The trie after processDBIPReader has gone over the leaves from position i.
RECURSIVE ReferencePass2(_, _, _)
ReferencePass2(t, leaves, i) ==
    IF i > Len(leaves) THEN t
    ELSE LET built == BuildMergedRecordFromDBIP(leaves[i].net, leaves[i].rec, ZeroMergedRecord)
         IN  ReferencePass2(IF Pass2Handles(leaves[i].net, leaves[i].rec) /\ ~IsEmpty(built)
                            THEN InsertWithMerge(t, leaves[i].net, built) ELSE t,
                            leaves, i + 1)

ReferenceTree ==
    ReferencePass2(ReferencePass2(ReferencePass1([a \in {} |-> << >>], 1), db.dbipV4, 1),
                   db.dbipV6, 1)

\* C9: whatever the interleaving of producer, workers and serializer and
\* whichever worker handles which network, the trie at the end of Pass 1 and
\* the final trie are those of the reference run on the same inputs: two
\* runs on identical inputs end with the same trie.
C9_TrieIndependentOfSchedule ==
    /\ (pc = "join" /\ serializer = "exited")
          => tree = ReferencePass1([a \in {} |-> << >>], 1)
    /\ pc = "done" => tree = ReferenceTree

\* C9 witness of a reordering: a worker still holds the result of a network
\* while the result channel already carries that of a later network.
C9_ResultsOutOfStreamOrder ==
    \E w \in WorkerIds :
        /\ workers[w].at = "send"
        /\ pool.resultChan # << >>
        /\ workers[w].held[1].network.start < Head(pool.resultChan).network.start

---------------------------------------------------------------------------
(* Languages of the names maps                                             *)

\* config.SupportedLanguages
SupportedLanguages == {"de", "en", "es", "fr", "ja", "pt-BR", "ru", "zh-CN"}

\* A GeoLite2-City record whose names maps carry a language outside
\* config.SupportedLanguages next to one inside it.
GeoItalian ==
    [ ZeroGeoLite2CityRecord EXCEPT
        !.City = [GeonameID |-> 3, Names |-> [l \in {"en", "it"} |-> "Roma"]],
        !.Country = [GeonameID |-> 2, ISOCode |-> "IT",
                     Names |-> [l \in {"en", "it"} |-> "Italia"]],
        !.Subdivisions = << [GeonameID |-> 1, ISOCode |-> "62",
                             Names |-> [l \in {"it"} |-> "Lazio"]] >> ]

\* Runs over GeoLite2-City databases whose names maps hold any languages
\* the file gives them, Chinese networks and QQWry included.
InitLang ==
    InitWith(Databases(Addrs, MaxGeoLeaves, {GeoFull, GeoItalian, GeoCNPlain}),
             Databases(V4Addrs, MaxDBIPLeaves, {DBIPFull, DBIPCityOnly}),
             {<< >>},
             {<< >>}, {<< >>}, {<< >>}, {<< >>},
             {<< >>, Single(QQWryFull)},
             {NoProxyList})

SpecLang == InitLang /\ [][Next]_vars

\* The names maps of an output record: of its city, continent, country,
\* registered country and of each of its subdivisions.
NamesMapsOf(m) ==
    { m[k]["names"] : k \in { x \in {"city", "continent", "country", "registered_country"} :
                                HasField(m, x, "names") } }
    \cup (IF HasKey(m, "subdivisions")
          THEN { m["subdivisions"][i]["names"] :
                   i \in { j \in 1..Len(m["subdivisions"]) :
                             HasKey(m["subdivisions"][j], "names") } }
          ELSE {})

\* C11: every key of every names map of every record of the output trie is
\* one of the eight supported languages, whatever keys the names maps of
\* the source records have.
C11_NamesKeysAreSupportedLanguages ==
    \A a \in DOMAIN tree :
        \A names \in NamesMapsOf(tree[a]) : DOMAIN names \subseteq SupportedLanguages

---------------------------------------------------------------------------
(* The ASN sub-record                                                      *)

ASNSources == {"ipinfo", "geolite", "routeviews"}

\* The asn map one source alone gives for one address.
ASNMapOf(src, ip) ==
    CASE src = "ipinfo" ->
           ASNToMMDB([ Number       |-> GetASNumber(LookupIPinfo(ip)),
                       Organization |-> LookupIPinfo(ip).ASName,
                       Domain       |-> LookupIPinfo(ip).ASDomain ])
      [] src = "geolite" ->
           ASNToMMDB([ Number       |-> LookupGeoLiteASN(ip).AutonomousSystemNumber,
                       Organization |-> LookupGeoLiteASN(ip).AutonomousSystemOrganization,
                       Domain       |-> "" ])
      [] OTHER ->
           ASNToMMDB([ Number       |-> LookupRouteViews(ip).AutonomousSystemNumber,
                       Organization |-> LookupRouteViews(ip).AutonomousSystemOrganization,
                       Domain       |-> "" ])

\* The addresses at which the two passes look the sources up for the
\* records that reach an address: the first address of the GeoLite2-City
\* leaf and of the DB-IP leaf covering it.
LookupAddrs(a) ==
    (IF Covers(db.geoLiteCity, a) THEN {LeafAt(db.geoLiteCity, a).net.start} ELSE {})
    \cup (IF Covers(DBIPOf(a), a) THEN {LeafAt(DBIPOf(a), a).net.start} ELSE {})

\* C12: the asn map of every record of the output trie is the map one
\* source gives at one lookup address (number, organization and as_domain
\* together), it has an as_domain only when that source is IPinfo Lite, and
\* this stays so through every Pass-2 merge.
C12_ASNFromOneSource ==
    \A a \in DOMAIN tree :
        HasKey(tree[a], "asn") =>
            \E src \in ASNSources, ip \in LookupAddrs(a) :
                /\ tree[a]["asn"] = ASNMapOf(src, ip)
                /\ HasKey(tree[a]["asn"], "as_domain") => src = "ipinfo"

\* C12 witness: a Pass-2 merge has reached a record that Pass 1 gave an asn
\* map, with a DB-IP record whose asn map comes from another source and
\* differs; the record still has the asn map of Pass 1.
C12_MergeMetAnotherASN ==
    /\ pc = "done"
    /\ \E a \in DOMAIN tree :
        /\ Covers(db.geoLiteCity, a)
        /\ Covers(DBIPOf(a), a)
        /\ LET g == LeafAt(db.geoLiteCity, a)
               d == LeafAt(DBIPOf(a), a)
               second == BuildMergedRecordFromDBIP(d.net, d.rec, ZeroMergedRecord)
           IN  /\ Pass2Handles(d.net, d.rec)
               /\ ~IsEmpty(second)
               /\ HasKey(ToMMDBType(second), "asn")
               /\ HasKey(tree[a], "asn")
               /\ ToMMDBType(second)["asn"] # tree[a]["asn"]
               /\ DOMAIN ToMMDBType(second)["asn"] \ DOMAIN tree[a]["asn"] # {}
               /\ tree[a]["asn"] =
                     ToMMDBType(BuildMergedRecord(g.net, g.rec, ZeroMergedRecord))["asn"]

---------------------------------------------------------------------------
(* Loading the proxy list and looking addresses up in it                   *)

\* A line of the CSV file after the header: a row csv.Reader returns
\* ("ok"), a line it returns an error for (wrong number of fields, bad
\* quoting), a row with an empty ip column, a row whose ip column neither
\* netip.ParsePrefix nor netip.ParseAddr accepts.
RowForms == {"ok", "csverror", "emptyip", "badip"}

FileRow(form, row) == [form |-> form, row |-> row]

FileRows ==
    { FileRow("ok", row) : row \in ProxyRows }
    \cup { FileRow(form, ProxyRow(c, [start |-> 0, bits |-> AddrBits], TRUE, FALSE)) :
             form \in RowForms \ {"ok"}, c \in BOOLEAN }

\* The header line: one csv.Reader returns with all required columns, one
\* that lacks a required column, one csv.Reader returns an error for.
HeaderForms == {"ok", "missingcol", "csverror"}

CSVFiles ==
    [ header : HeaderForms,
      rows : UNION { [1..n -> FileRows] : n \in 0..MaxProxyRows } ]

\* The reader as far as it is loaded.
LoadedReader == [singleIPs |-> loader.singleIPs, cidrRanges |-> loader.cidrRanges]

\* parse: reading and validating the header.
ParseHeader ==
    /\ loader.at = "header"
    /\ loader' = [loader EXCEPT !.at = IF loader.file.header = "ok" THEN "rows" ELSE "failed"]
    /\ UNCHANGED <<probe, envVars, db, pc, idx, tree, stats, mrecord, pool, workers, serializer>>

\* parse: one iteration of the loop over the data rows.
ParseRow ==
    /\ loader.at = "rows"
    /\ loader.pos <= Len(loader.file.rows)
    /\ LET line == loader.file.rows[loader.pos]
           record == ProxyRecordOf(line.row)
       IN  IF line.form = "csverror"
           THEN loader' = [loader EXCEPT !.at = "failed"]
           ELSE IF line.form = "emptyip" \/ ~ProxyHasData(record) \/ line.form = "badip"
           THEN loader' = [loader EXCEPT !.pos = @ + 1]
           ELSE IF line.row.cidr
           THEN loader' = [loader EXCEPT
                    !.pos = @ + 1,
                    !.cidrRanges = Append(@, [prefix |-> line.row.prefix, record |-> record])]
           ELSE loader' = [loader EXCEPT
                    !.pos = @ + 1,
                    !.singleIPs = MapSet(@, line.row.prefix.start, record)]
    /\ UNCHANGED <<probe, envVars, db, pc, idx, tree, stats, mrecord, pool, workers, serializer>>

\* parse returns nil at io.EOF; OpenOpenproxyDB sorts cidrRanges, builds the
\* IPSet and returns the reader.
SortAndReturn ==
    /\ loader.at = "rows"
    /\ loader.pos > Len(loader.file.rows)
    /\ \E sorted \in SortedOrders(loader.cidrRanges) :
          loader' = [loader EXCEPT !.at = "ready", !.cidrRanges = sorted]
    /\ UNCHANGED <<probe, envVars, db, pc, idx, tree, stats, mrecord, pool, workers, serializer>>

\* OpenproxyDBReader.LookupTo on the loaded reader.
LookupTo(addr) ==
    /\ loader.at = "ready"
    /\ probe' = [ called |-> TRUE, addr |-> addr,
                  found |-> ProxyFound(LoadedReader, addr),
                  record |-> IF ProxyFound(LoadedReader, addr)
                             THEN ProxyLookup(LoadedReader, addr) ELSE ZeroProxy ]
    /\ UNCHANGED <<loader, envVars, db, pc, idx, tree, stats, mrecord, pool, workers, serializer>>

NextProxy ==
    \/ ParseHeader
    \/ ParseRow
    \/ SortAndReturn
    \/ \E addr \in Addrs : LookupTo(addr)

\* OpenOpenproxyDB is called on a CSV file; nothing else runs.
InitProxy ==
    /\ loader \in { [NoLoader EXCEPT !.file = f, !.at = "header"] : f \in CSVFiles }
    /\ probe = NoProbe
    /\ faults = NoFaults
    /\ ctor = BuiltMerger
    /\ fs = NoWrite
    /\ interner = NoInternCalls
    /\ db = [ geoLiteCity |-> << >>, dbipV4 |-> << >>, dbipV6 |-> << >>,
              ipinfoLite |-> << >>, geoLiteASN |-> << >>, routeViewsASN |-> << >>,
              geoWhoisCountry |-> << >>, qqwry |-> << >>, openproxyDB |-> NoProxyList ]
    /\ pc = "done"
    /\ idx = 1
    /\ tree = [a \in {} |-> << >>]
    /\ stats = ZeroStats
    /\ mrecord = ZeroMergedRecord
    /\ pool = NewWorkerPool
    /\ workers = [w \in WorkerIds |-> [at |-> "exited", held |-> << >>]]
    /\ serializer = "exited"

SpecProxy == InitProxy /\ [][NextProxy]_vars

\* C13: LookupTo returns the flags of the single-IP row of the address when
\* the reader holds one, whatever CIDR rows contain the address; otherwise
\* the flags of a CIDR row containing the address with the largest bit
\* length; otherwise it reports not found.
C13_LookupToSingleThenMostSpecific ==
    probe.called =>
        LET r == LoadedReader
            a == probe.addr
        IN  IF a \in DOMAIN r.singleIPs
            THEN probe.found /\ probe.record = r.singleIPs[a]
            ELSE IF MostSpecificCIDR(r, a) # {}
            THEN /\ probe.found
                 /\ \E i \in MostSpecificCIDR(r, a) : probe.record = r.cidrRanges[i].record
            ELSE ~probe.found

\* C14: while the rows are loaded, a malformed line (one csv.Reader returns
\* an error for, or one whose address or prefix does not parse) is skipped:
\* the loader moves to the next line with the reader as it was; loading
\* fails only at the header.
C14_MalformedRowsSkipped ==
    [][ /\ (/\ loader.at = "rows"
            /\ loader.pos <= Len(loader.file.rows)
            /\ loader.file.rows[loader.pos].form \in {"csverror", "badip"})
           => /\ loader'.at = "rows"
              /\ loader'.pos = loader.pos + 1
              /\ loader'.singleIPs = loader.singleIPs
              /\ loader'.cidrRanges = loader.cidrRanges
        /\ (loader'.at = "failed" /\ loader.at # "failed") => loader.at = "header" ]_vars

---------------------------------------------------------------------------
(* Values of the output records                                            *)

NumberKeys == {"geoname_id", "accuracy_radius", "metro_code", "autonomous_system_number"}

StringKeys == {"code", "iso_code", "time_zone", "autonomous_system_organization", "as_domain"}

\* A names map is there only with an entry, and every name in it is a
\* non-empty string.
NamesNonEmpty(names) == DOMAIN names # {} /\ \A l \in DOMAIN names : names[l] # ""

\* A sub-map of an output record is there only with a key, its numbers
\* are not zero and its strings not empty; the coordinates are left to
\* HasCoordinates.
SubMapNonEmpty(m) ==
    /\ DOMAIN m # {}
    /\ \A k \in DOMAIN m :
          /\ k \in NumberKeys => m[k] # 0
          /\ k \in StringKeys => m[k] # ""
          /\ k = "names" => NamesNonEmpty(m[k])

\* C15: every record of the output trie, from Pass 1 or Pass 2, holds only
\* non-empty values: no empty string, no zero number, no empty map, no
\* empty list, and every name of every names map is a non-empty string.
C15_OnlyNonEmptyValues ==
    \A a \in DOMAIN tree :
        /\ DOMAIN tree[a] # {}
        /\ \A key \in DOMAIN tree[a] :
              IF key = "subdivisions"
              THEN /\ Len(tree[a][key]) > 0
                   /\ \A i \in 1..Len(tree[a][key]) : SubMapNonEmpty(tree[a][key][i])
              ELSE SubMapNonEmpty(tree[a][key])

---------------------------------------------------------------------------
(* Coordinates                                                             *)

\* The coordinates of the geo source whose record the passes use for an
\* address covered by one of the two geo sources only: GeoLite2-City's
\* where its record has geo data, DB-IP's where only DB-IP covers it.
OnlyGeoLiteCity(a) ==
    /\ Covers(db.geoLiteCity, a)
    /\ GeoLite2CityHasGeoData(LookupGeoLiteCity(a))
    /\ ~Covers(DBIPOf(a), a)

OnlyDBIP(a) ==
    /\ ~Covers(db.geoLiteCity, a)
    /\ Covers(DBIPOf(a), a)
    /\ LeafAt(DBIPOf(a), a).net.start \in DOMAIN tree

SourceCoordinates(a) ==
    IF OnlyGeoLiteCity(a)
    THEN <<LookupGeoLiteCity(a).Location.Latitude, LookupGeoLiteCity(a).Location.Longitude>>
    ELSE <<LeafAt(DBIPOf(a), a).rec.Latitude, LeafAt(DBIPOf(a), a).rec.Longitude>>

\* C16: after both passes the output has latitude and longitude exactly
\* where the source supplied coordinates.  A decoded source record shows
\* (0,0) both for a position on the equator and for no position, so the
\* statement is taken under either reading of (0,0): read as no position,
\* no record with (0,0) may come out with coordinates; read as a position,
\* every record must come out with them.
C16_CoordinatesIffSupplied ==
    pc = "done" =>
        \E zeroIsAPosition \in BOOLEAN :
            \A a \in { x \in DOMAIN tree : OnlyGeoLiteCity(x) \/ OnlyDBIP(x) } :
                HasField(tree[a], "location", "latitude")
                    = (zeroIsAPosition \/ SourceCoordinates(a) # <<0, 0>>)

---------------------------------------------------------------------------
(* Per-prefix errors of the two passes                                     *)

\* The networks the iterators of the merge yield.
NetworksOf(d) ==
    { d.geoLiteCity[i].net : i \in 1..Len(d.geoLiteCity) }
        \cup { d.dbipV4[i].net : i \in 1..Len(d.dbipV4) }
        \cup { d.dbipV6[i].net : i \in 1..Len(d.dbipV6) }

\* Sources where some records fail to decode (networks.Network returns an
\* error) and where the tree rejects some networks (Tree.Insert and
\* Tree.InsertFunc return an error).
InitFaults ==
    /\ InitMerge(Databases(Addrs, MaxGeoLeaves, {ZeroGeoLite2CityRecord, GeoFull}),
                 Databases(V4Addrs, MaxDBIPLeaves, {DBIPFull}),
                 Databases(V6Addrs, MaxDBIPLeaves, {DBIPFull}),
                 {<< >>}, {<< >>}, {<< >>}, {<< >>}, {<< >>}, {NoProxyList})
    /\ faults \in [decode : SUBSET NetworksOf(db), insert : SUBSET NetworksOf(db)]

SpecFaults == InitFaults /\ [][Next]_vars

\* The leaves the running pass iterates over.
PassLeaves == IF pc = "pass1" THEN db.geoLiteCity ELSE DBIPLeaves

\* The running pass is at a network whose record fails to decode.
AtDecodeFailure ==
    /\ pc \in {"pass1", "dbip4", "dbip6"}
    /\ idx <= Len(PassLeaves)
    /\ PassLeaves[idx].net \in faults.decode

\* The running pass is at a network it goes on to insert and the tree rejects.
AtInsertFailure ==
    /\ pc \in {"pass1", "dbip4", "dbip6"}
    /\ idx <= Len(PassLeaves)
    /\ LET network == PassLeaves[idx].net
           rec == PassLeaves[idx].rec
       IN  /\ network \notin faults.decode
           /\ network \in faults.insert
           /\ IF pc = "pass1"
              THEN ~IsEmpty(BuildMergedRecord(network, rec, Reset(mrecord)))
              ELSE /\ Pass2Handles(network, rec)
                   /\ ~IsEmpty(BuildMergedRecordFromDBIP(network, rec, Reset(mrecord)))

\* C17: a decode failure or an insert failure for one prefix does not abort
\* the pass: the pass stays where it is in Merge, the trie is unchanged, the
\* iterator moves to the next prefix, and a counter of the statistics is
\* incremented for the swallowed error.
C17_SwallowedErrorCounted ==
    [][ (AtDecodeFailure \/ AtInsertFailure) =>
            /\ pc' = pc
            /\ idx' = idx + 1
            /\ tree' = tree
            /\ \E k \in DOMAIN stats : stats'[k] = stats[k] + 1 ]_vars

---------------------------------------------------------------------------
(* Construction and release of the Merger (New, Merger.Close)              *)

\* closerList.closeAll: Close is called on every reader of the list, whatever
\* the earlier calls returned.
CloseAll(c) ==
    LET closed == { c.closers[i] : i \in 1..Len(c.closers) }
    IN  [ c EXCEPT !.handles = @ \ UNION { HandlesOf(r) : r \in closed },
                   !.closeCalls = @ \cup closed ]

\* reader.Open behind OpenGeoLite2City, OpenGeoLite2ASN, OpenIPinfoLite,
\* OpenRouteViewsASN, OpenGeoWhoisCountry, and ipdb.NewCity behind OpenQQWry.
Open(c, r) ==
    IF FilesOf(r) \cap c.broken # {}
    THEN [ok |-> FALSE, handles |-> c.handles]
    ELSE [ok |-> TRUE, handles |-> c.handles \cup HandlesOf(r)]

\* OpenDBIPCity returning on the IPv6 error without closing the IPv4 reader.
OpenDBIPCityLeaky(c) ==
    IF "DBIPCityIPv4" \in c.broken
    THEN [ok |-> FALSE, handles |-> c.handles]
    ELSE IF "DBIPCityIPv6" \in c.broken
    THEN [ok |-> FALSE, handles |-> c.handles \cup {"DBIPCityIPv4"}]
    ELSE [ok |-> TRUE, handles |-> c.handles \cup {"DBIPCityIPv4", "DBIPCityIPv6"}]

\* OpenDBIPCity: the IPv4 file, then the IPv6 file; the IPv4 reader is closed
\* when the IPv6 file does not open.
OpenDBIPCity(c) ==
    IF "DBIPCityIPv4" \in c.broken
    THEN [ok |-> FALSE, handles |-> c.handles]
    ELSE IF "DBIPCityIPv6" \in c.broken
    THEN [ok |-> FALSE, handles |-> (c.handles \cup {"DBIPCityIPv4"}) \ {"DBIPCityIPv4"}]
    ELSE [ok |-> TRUE, handles |-> c.handles \cup {"DBIPCityIPv4", "DBIPCityIPv6"}]

\* New returns nil and an error.
ReturnError(c) == [c EXCEPT !.at = "returned", !.result = "error"]

\* One of the seven opening steps of New: on an error cleanup() runs (the
\* first step has nothing to clean up) and New returns.
OpenSource ==
    /\ pc = "new"
    /\ ctor.at = "open"
    /\ LET r == NewSteps[ctor.n]
           o == IF r = "dbipCity" THEN OpenDBIPCity(ctor) ELSE Open(ctor, r)
           c == [ctor EXCEPT !.handles = o.handles]
       IN  ctor' = IF ~o.ok
                   THEN ReturnError(IF ctor.n = 1 THEN c ELSE CloseAll(c))
                   ELSE [c EXCEPT !.closers = Append(@, r),
                                  !.n = @ + 1,
                                  !.at = IF ctor.n = Len(NewSteps) THEN "tree" ELSE "open"]
    /\ UNCHANGED <<loader, probe, faults, fs, interner, db, pc, idx, tree, stats, mrecord,
                   pool, workers, serializer>>

\* mmdbwriter.New at the end of New; on success mergeDatabases calls Merge.
NewTree ==
    /\ pc = "new"
    /\ ctor.at = "tree"
    /\ IF ctor.treeErr
       THEN /\ ctor' = ReturnError(CloseAll(ctor))
            /\ pc' = pc
       ELSE /\ ctor' = [ctor EXCEPT !.at = "returned", !.result = "merger"]
            /\ pc' = "pass1"
    /\ UNCHANGED <<loader, probe, faults, fs, interner, db, idx, tree, stats, mrecord,
                   pool, workers, serializer>>

\* Merger.Close, deferred by mergeDatabases: Close on each of the seven readers.
CloseMerger ==
    /\ pc = "done"
    /\ ctor.at = "returned"
    /\ ctor.result = "merger"
    /\ ctor' = [ CloseAll([ctor EXCEPT !.closers = NewSteps]) EXCEPT !.at = "closed" ]
    /\ UNCHANGED <<loader, probe, faults, fs, interner, db, pc, idx, tree, stats, mrecord,
                   pool, workers, serializer>>

NextNew == OpenSource \/ NewTree \/ Next \/ CloseMerger

\* mergeDatabases calls New: any of the files may fail to open and
\* mmdbwriter.New may fail.
InitNew ==
    /\ db = [ geoLiteCity |-> Single(GeoFull),
              dbipV4 |-> << [net |-> [start |-> 0, bits |-> 1], rec |-> DBIPFull] >>,
              dbipV6 |-> << [net |-> [start |-> 2, bits |-> 1], rec |-> DBIPFull] >>,
              ipinfoLite |-> << >>, geoLiteASN |-> << >>, routeViewsASN |-> << >>,
              geoWhoisCountry |-> << >>, qqwry |-> << >>, openproxyDB |-> NoProxyList ]
    /\ pc = "new"
    /\ idx = 1
    /\ tree = EmptyTree
    /\ stats = ZeroStats
    /\ mrecord = ZeroMergedRecord
    /\ pool = NewWorkerPool
    /\ workers = [w \in WorkerIds |-> [at |-> "exited", held |-> << >>]]
    /\ serializer = "exited"
    /\ loader = NoLoader
    /\ probe = NoProbe
    /\ faults = NoFaults
    /\ fs = NoWrite
    /\ interner = NoInternCalls
    /\ ctor \in { [ BuiltMerger EXCEPT !.at = "open", !.n = 1, !.broken = b,
                                       !.treeErr = t, !.handles = {},
                                       !.closers = << >>, !.result = "none" ] :
                  b \in SUBSET SourceFiles, t \in BOOLEAN }

SpecNew == InitNew /\ [][NextNew]_vars

\* C18: when a source fails to open or the output tree cannot be created,
\* New returns an error and no Merger, no merge runs, Close has been called
\* on every reader opened before the failing step, and no file remains open.
C18_FailedNewReleasesEverything ==
    /\ (ctor.at # "open" /\ ctor.at # "tree" /\ (ctor.broken # {} \/ ctor.treeErr))
           => ctor.result = "error"
    /\ ctor.result = "error" =>
           /\ pc = "new"
           /\ tree = EmptyTree
           /\ stats = ZeroStats
           /\ ctor.handles = {}
           /\ \A i \in 1..Len(ctor.closers) : ctor.closers[i] \in ctor.closeCalls

\* New failed after it had opened the two DB-IP files and three others.
C18_FailedAfterDBIPOpened ==
    /\ ctor.result = "error"
    /\ Len(ctor.closers) >= 4
    /\ "dbipCity" \in ctor.closeCalls

---------------------------------------------------------------------------
(* Writing the output file (Writer.Write)                                  *)

\* The calls of Writer.Write that can return an error.
WriteCalls == {"mkdir", "create", "write", "close", "rename", "stat"}

\* A file holding the whole serialisation of a tree.
WrittenFile(t) == [exists |-> TRUE, data |-> t, complete |-> TRUE]

\* A file that received only part of the serialisation of a tree, or whose
\* content was not flushed.
PartialFiles(t) ==
    { [exists |-> TRUE, data |-> d, complete |-> FALSE] : d \in {EmptyTree, t} }

\* The output of an earlier run, and what an interrupted one left behind.
OldOutput == WrittenFile(TreeInsert(EmptyTree, [start |-> 2, bits |-> 1],
                                    [country |-> [iso_code |-> "DE"]]))

StaleTmp == [exists |-> TRUE, data |-> OldOutput.data, complete |-> FALSE]

\* The trees Merge hands to the writer.
MergedTrees ==
    { EmptyTree,
      TreeInsert(EmptyTree, [start |-> 0, bits |-> 1], [country |-> [iso_code |-> "US"]]) }

\* Write returning an error without removing the temporary file.
FailWriteKeepTmp(f) == [f EXCEPT !.at = "returned", !.ret = "error"]

\* os.Remove(tmpPath) followed by the return of an error.
FailWrite(f) == [f EXCEPT !.tmp = NoFile, !.at = "returned", !.ret = "error"]

\* os.MkdirAll of the output directory.
WriterMkdirAll ==
    /\ fs.at = "mkdir"
    /\ fs' = IF "mkdir" \in fs.failing
             THEN [fs EXCEPT !.at = "returned", !.ret = "error"]
             ELSE [fs EXCEPT !.at = "create"]
    /\ UNCHANGED <<loader, probe, faults, ctor, interner, db, pc, idx, tree, stats, mrecord,
                   pool, workers, serializer>>

\* os.Create(tmpPath): the temporary file is created or truncated.
WriterCreate ==
    /\ fs.at = "create"
    /\ fs' = IF "create" \in fs.failing
             THEN [fs EXCEPT !.at = "returned", !.ret = "error"]
             ELSE [fs EXCEPT !.tmp = [exists |-> TRUE, data |-> EmptyTree, complete |-> FALSE],
                             !.at = "write"]
    /\ UNCHANGED <<loader, probe, faults, ctor, interner, db, pc, idx, tree, stats, mrecord,
                   pool, workers, serializer>>

\* tree.WriteTo(file): on an error any part of the tree may have been written.
WriterWriteTo ==
    /\ fs.at = "write"
    /\ IF "write" \in fs.failing
       THEN \E f \in PartialFiles(tree) : fs' = [fs EXCEPT !.tmp = f, !.err = TRUE, !.at = "close"]
       ELSE fs' = [fs EXCEPT !.tmp = WrittenFile(tree), !.at = "close"]
    /\ UNCHANGED <<loader, probe, faults, ctor, interner, db, pc, idx, tree, stats, mrecord,
                   pool, workers, serializer>>

\* file.Close() and the check of err that follows it.
WriterClose ==
    /\ fs.at = "close"
    /\ LET closeErr == "close" \in fs.failing
           err == fs.err \/ closeErr
           closed == IF closeErr THEN [fs.tmp EXCEPT !.complete = FALSE] ELSE fs.tmp
       IN  fs' = IF err
                 THEN FailWrite([fs EXCEPT !.tmp = closed, !.err = TRUE])
                 ELSE [fs EXCEPT !.at = "rename"]
    /\ UNCHANGED <<loader, probe, faults, ctor, interner, db, pc, idx, tree, stats, mrecord,
                   pool, workers, serializer>>

\* os.Rename(tmpPath, w.path): the temporary file replaces the output file
\* in one step, or nothing changes.
WriterRename ==
    /\ fs.at = "rename"
    /\ fs' = IF "rename" \in fs.failing
             THEN FailWrite(fs)
             ELSE [fs EXCEPT !.out = fs.tmp, !.tmp = NoFile, !.at = "stat"]
    /\ UNCHANGED <<loader, probe, faults, ctor, interner, db, pc, idx, tree, stats, mrecord,
                   pool, workers, serializer>>

\* os.Stat(w.path) and the report of the sizes.
WriterStat ==
    /\ fs.at = "stat"
    /\ fs' = [fs EXCEPT !.at = "returned",
                        !.ret = IF "stat" \in fs.failing THEN "error" ELSE "nil"]
    /\ UNCHANGED <<loader, probe, faults, ctor, interner, db, pc, idx, tree, stats, mrecord,
                   pool, workers, serializer>>

NextWrite ==
    WriterMkdirAll \/ WriterCreate \/ WriterWriteTo \/ WriterClose \/ WriterRename \/ WriterStat

\* mergeDatabases calls WriteToPath after Merge: the output path may hold the
\* output of an earlier run, a temporary file may be left from one, and any
\* of the calls may fail.
InitWrite ==
    /\ db = [ geoLiteCity |-> << >>, dbipV4 |-> << >>, dbipV6 |-> << >>,
              ipinfoLite |-> << >>, geoLiteASN |-> << >>, routeViewsASN |-> << >>,
              geoWhoisCountry |-> << >>, qqwry |-> << >>, openproxyDB |-> NoProxyList ]
    /\ pc = "done"
    /\ idx = 1
    /\ tree \in MergedTrees
    /\ stats = ZeroStats
    /\ mrecord = ZeroMergedRecord
    /\ pool = NewWorkerPool
    /\ workers = [w \in WorkerIds |-> [at |-> "exited", held |-> << >>]]
    /\ serializer = "exited"
    /\ loader = NoLoader
    /\ probe = NoProbe
    /\ faults = NoFaults
    /\ ctor = BuiltMerger
    /\ interner = NoInternCalls
    /\ fs \in { [ NoWrite EXCEPT !.at = "mkdir", !.failing = f, !.out = o, !.tmp = t ] :
                f \in SUBSET WriteCalls, o \in {NoFile, OldOutput}, t \in {NoFile, StaleTmp} }

SpecWrite == InitWrite /\ [][NextWrite]_vars

\* C19: Writer.Write changes the file at the output path only by renaming a
\* completely written temporary file onto it; when writing, closing or
\* renaming fails, Write returns an error, the temporary file is removed and
\* the file at the output path is the one that was there before.
C19_OutputReplacedOnlyByRename ==
    [][ /\ fs'.out # fs.out =>
              /\ fs.at = "rename"
              /\ fs.tmp = WrittenFile(tree)
              /\ fs'.out = fs.tmp
        /\ ( /\ fs'.at = "returned"
             /\ fs.at \in {"close", "rename"}
             /\ fs.failing \cap {"write", "close", "rename"} # {} ) =>
              /\ fs'.ret = "error"
              /\ ~fs'.tmp.exists
              /\ fs'.out = fs.out
              /\ fs'.out \in {NoFile, OldOutput} ]_vars

\* The rename failed over an existing output file, after the temporary file
\* had been written and closed.
C19_RenameFailedOverOldOutput ==
    /\ fs.at = "returned"
    /\ fs.failing = {"rename"}
    /\ fs.out = OldOutput
    /\ fs.ret = "error"

---------------------------------------------------------------------------
(* The order of the ASN sources                                            *)

\* Whether a source returns an ASN at an address in the sense of the stated
\* rule: a number other than 0 from IPinfo Lite, an organization from
\* GeoLite2-ASN and RouteViews.
ReturnsASN(src, ip) ==
    CASE src = "ipinfo" -> GetASNumber(LookupIPinfo(ip)) # 0
      [] src = "geolite" -> LookupGeoLiteASN(ip).AutonomousSystemOrganization # ""
      [] OTHER -> LookupRouteViews(ip).AutonomousSystemOrganization # ""

\* The first source in the order Primary, Secondary, Tertiary that returns one.
FirstReturningASN(ip) ==
    IF ReturnsASN("ipinfo", ip) THEN "ipinfo"
    ELSE IF ReturnsASN("geolite", ip) THEN "geolite"
    ELSE IF ReturnsASN("routeviews", ip) THEN "routeviews"
    ELSE "none"

\* The running pass is at a network that it enriches.
AtEnrichedNetwork ==
    /\ pc \in {"pass1", "dbip4", "dbip6"}
    /\ idx <= Len(PassLeaves)
    /\ PassLeaves[idx].net \notin faults.decode
    /\ pc # "pass1" => Pass2Handles(PassLeaves[idx].net, PassLeaves[idx].rec)

\* C20: for every network a pass enriches, the source whose hit is counted
\* and whose ASN the record takes is the first, in the order IPinfo Lite,
\* GeoLite2-ASN, RouteViews, that returns a number other than 0 (IPinfo Lite)
\* or an organization (the two others); an IPinfo Lite record that yields
\* number 0 does not stop the search, and no later source is counted.
C20_ASNSearchStopsAtFirstReturning ==
    [][ AtEnrichedNetwork =>
            LET ip == PassLeaves[idx].net.start
                chosen == FirstReturningASN(ip)
            IN  /\ stats'.IPinfoLiteHits = stats.IPinfoLiteHits + One(chosen = "ipinfo")
                /\ stats'.GeoLiteASNHits = stats.GeoLiteASNHits + One(chosen = "geolite")
                /\ stats'.RouteViewsASNHits = stats.RouteViewsASNHits + One(chosen = "routeviews")
                /\ chosen = "ipinfo" =>
                       /\ mrecord'.ASN.Number = GetASNumber(LookupIPinfo(ip))
                       /\ mrecord'.ASN.Organization = LookupIPinfo(ip).ASName
                /\ chosen = "geolite" =>
                       /\ mrecord'.ASN.Number = LookupGeoLiteASN(ip).AutonomousSystemNumber
                       /\ mrecord'.ASN.Organization =
                              LookupGeoLiteASN(ip).AutonomousSystemOrganization
                /\ chosen = "routeviews" =>
                       /\ mrecord'.ASN.Number = LookupRouteViews(ip).AutonomousSystemNumber
                       /\ mrecord'.ASN.Organization =
                              LookupRouteViews(ip).AutonomousSystemOrganization
                /\ chosen = "none" => mrecord'.ASN = ZeroMergedRecord.ASN ]_vars

---------------------------------------------------------------------------
(* The guard of the QQWry enrichment                                       *)

GeoWhoisCN == [CountryCode |-> "CN"]

\* QQWry records that are Chinese by their country name alone, and one whose
\* country code is that of another territory under the Chinese country name.
QQWryNameOnly ==
    [ZeroQQWryRecord EXCEPT !.CountryName = ChinaName, !.CityName = "qq-ShenzhenZh"]

QQWryHongKong ==
    [ ZeroQQWryRecord EXCEPT !.CountryName = ChinaName, !.CountryCode = "HK",
                             !.RegionName = "qq-XianggangZh" ]

\* Runs over networks with a Chinese country, another country and no
\* country, with and without a Chinese country fallback, under the layouts
\* of a QQWry database of Chinese and foreign records.
InitCNGuard ==
    InitWith(Databases(Addrs, MaxGeoLeaves, {GeoCNPlain, GeoCountryOnly, GeoTimeZoneOnly}),
             Databases(V4Addrs, MaxDBIPLeaves, {DBIPCityOnly}),
             {<< >>},
             {<< >>}, {<< >>}, {<< >>},
             {<< >>, Single(GeoWhoisCN)},
             Databases(Addrs, MaxAuxLeaves,
                       {QQWryFull, QQWryAbroad, QQWryNameOnly, QQWryHongKong}),
             {NoProxyList})

SpecCNGuard == InitCNGuard /\ [][Next]_vars

\* The merged record of the network the pass is at, as the country
\* fallback leaves it for enrichWithQQWryData.
BeforeQQWry ==
    LET leaf == PassLeaves[idx]
        base == IF pc = "pass1"
                THEN IF GeoLite2CityHasGeoData(leaf.rec)
                     THEN FromGeoLiteCity(leaf.rec, Reset(mrecord)) ELSE Reset(mrecord)
                ELSE IF DBIPHasGeoData(leaf.rec)
                     THEN FromDBIP(leaf.rec, Reset(mrecord)) ELSE Reset(mrecord)
    IN  EnrichWithCountryFallback(leaf.net.start, EnrichWithASNData(leaf.net.start, base))

---------------------------------------------------------------------------
(* The order of the two passes                                             *)

\* What Pass 1 deposits in the trie for the GeoLite2-City stream.
Pass1Deposits == ReferencePass1(EmptyTree, 1)

\* C22: Pass 2 is strictly after Pass 1. Until Pass 2 begins the trie holds
\* nothing but Pass-1 deposits and no DB-IP network has been handled; once
\* it has begun the GeoLite2-City stream is exhausted, nothing of Pass 1 is
\* still in a channel or in a worker's hands, and every Pass-1 deposit is in
\* the trie with all its keys, so every Pass-2 lookup and merge sees them.
C22_Pass2AfterPass1 ==
    LET deposits == Pass1Deposits
    IN  /\ pc \in {"pass1", "submit", "wait", "join"} =>
               /\ stats.DBIPHits = 0
               /\ \A a \in DOMAIN tree : a \in DOMAIN deposits /\ tree[a] = deposits[a]
        /\ pc \in {"dbip4", "dbip6", "done"} =>
               /\ stats.TotalNetworks >= Len(db.geoLiteCity)
               /\ pool.workChan = << >>
               /\ pool.resultChan = << >>
               /\ \A w \in WorkerIds : workers[w].at = "exited"
               /\ serializer = "exited"
               /\ \A a \in DOMAIN deposits :
                      /\ a \in DOMAIN tree
                      /\ \A k \in DOMAIN deposits[a] :
                             HasKey(tree[a], k) /\ tree[a][k] = deposits[a][k]

\* A Pass-2 merge has just gone over a network that holds a Pass-1 deposit.
C22_Pass2MergedOverDeposit ==
    /\ pc = "dbip4"
    /\ idx > 1
    /\ stats.DBIPHits > 0
    /\ Pass2Handles(db.dbipV4[idx - 1].net, db.dbipV4[idx - 1].rec)
    /\ \E a \in DOMAIN Pass1Deposits : Contains(db.dbipV4[idx - 1].net, a)

---------------------------------------------------------------------------
(* Flow of items through the worker pool                                   *)

\* Runs of the worker pool over streams longer than the channels, of
\* networks with and without data; the pool is started, the serializer is
\* draining.
InitPoolFlow ==
    /\ db \in [ geoLiteCity : Databases(Addrs, MaxStreamLen,
                                        {ZeroGeoLite2CityRecord, GeoCountryOnly}),
                dbipV4 : {<< [net |-> [start |-> 0, bits |-> 1], rec |-> DBIPCityOnly] >>},
                dbipV6 : {<< >>},
                ipinfoLite : {<< >>}, geoLiteASN : {<< >>}, routeViewsASN : {<< >>},
                geoWhoisCountry : {<< >>}, qqwry : {<< >>},
                openproxyDB : {NoProxyList} ]
    /\ pc = "submit"
    /\ idx = 1
    /\ tree = EmptyTree
    /\ stats = ZeroStats
    /\ mrecord = ZeroMergedRecord
    /\ pool = NewWorkerPool
    /\ workers = [w \in WorkerIds |-> [at |-> "recv", held |-> << >>]]
    /\ serializer = "running"
    /\ IdleIO
    /\ faults = NoFaults

SpecPoolFlow == InitPoolFlow /\ [][NextPool]_vars

\* The number of positions of a sequence that satisfy a test.
CountIn(seq, Test(_)) == Cardinality({ i \in 1..Len(seq) : Test(seq[i]) })

\* The result a worker makes for the i-th network of the stream with every
\* enrichment applied.
ResultOf(i) ==
    ProcessWorkItem(NewWorkerContext,
                    [ network |-> db.geoLiteCity[i].net,
                      geoRecord |-> db.geoLiteCity[i].rec ]).result

\* Where the i-th network of the stream is: waiting in the work channel, as
\* a result in a worker's hands, in the result channel, or in the trie.
InWorkChan(i) == CountIn(pool.workChan, LAMBDA it : it.network = db.geoLiteCity[i].net)
InHands(i) == Cardinality({ w \in WorkerIds : workers[w].held = <<ResultOf(i)>> })
InResultChan(i) == CountIn(pool.resultChan, LAMBDA r : r = ResultOf(i))
InTree(i) ==
    One(\A a \in AddrsOf(db.geoLiteCity[i].net) : a \in DOMAIN tree /\ tree[a] = ResultOf(i).mmdbRecord)

\* The items the workers have processed, by their own counters.
ProcessedByWorkers ==
    SumOver(WorkerIds, [w \in WorkerIds |-> pool.contexts[w].stats.emptyRecords
                                            + pool.contexts[w].stats.processedNetworks])

\* C23: while the pool runs, every submitted item is waiting in the work
\* channel or has been processed by exactly one worker; every non-empty
\* result, with all its enrichments, is at exactly one place on the way to
\* the trie (a worker's hands, the result channel, the trie) and an empty
\* one at none; nothing carries a network that was not submitted; and the
\* result channel is closed only when every worker has exited with nothing
\* left to send.
C23_EachItemOnceAndCloseAfterWorkers ==
    pc \in {"submit", "wait", "join"} =>
        /\ Len(pool.workChan) + ProcessedByWorkers = pool.totalNetworks
        /\ \A i \in 1..Len(db.geoLiteCity) :
               LET delivered == InHands(i) + InResultChan(i) + InTree(i)
               IN  IF i > pool.totalNetworks
                   THEN InWorkChan(i) + delivered = 0
                   ELSE IF IsNil(ResultOf(i).mmdbRecord)
                   THEN InWorkChan(i) <= 1 /\ delivered = 0
                   ELSE InWorkChan(i) + delivered = 1
        /\ \A w \in WorkerIds :
               workers[w].held # << >> =>
                   \E i \in 1..pool.totalNetworks : workers[w].held = <<ResultOf(i)>>
        /\ \A j \in 1..Len(pool.resultChan) :
               \E i \in 1..pool.totalNetworks : pool.resultChan[j] = ResultOf(i)
        /\ pool.resultClosed =>
               /\ pool.workClosed
               /\ pool.workChan = << >>
               /\ \A w \in WorkerIds : workers[w].at = "exited"

\* The stream was longer than the work channel; every worker has exited
\* after making results, one of them after an empty one, and the closed
\* result channel is still full.
C23_PoolDrainedAfterBlocking ==
    /\ pc = "join"
    /\ pool.resultClosed
    /\ Len(db.geoLiteCity) > WorkChanSize
    /\ Len(pool.resultChan) = ResultChanSize
    /\ \E w \in WorkerIds : pool.contexts[w].stats.emptyRecords > 0
    /\ \A w \in WorkerIds : pool.contexts[w].stats.processedNetworks > 0

---------------------------------------------------------------------------
(* The ASN cache of a worker                                               *)

\* Runs of the worker pool over the layouts of IPinfo Lite and GeoLite2-ASN
\* under GeoLite2-City leaves that carry a country.
InitPoolASN ==
    /\ db \in [ geoLiteCity : Databases(Addrs, MaxGeoLeaves, {GeoCountryOnly}),
                dbipV4 : {<< [net |-> [start |-> 0, bits |-> 1], rec |-> DBIPCityOnly] >>},
                dbipV6 : {<< >>},
                ipinfoLite : Databases(Addrs, MaxAuxLeaves, {IPinfoAS15}),
                geoLiteASN : {<< >>, Single(GeoLiteAS20)},
                routeViewsASN : {<< >>},
                geoWhoisCountry : {<< >>}, qqwry : {<< >>},
                openproxyDB : {NoProxyList} ]
    /\ pc = "submit"
    /\ idx = 1
    /\ tree = EmptyTree
    /\ stats = ZeroStats
    /\ mrecord = ZeroMergedRecord
    /\ pool = NewWorkerPool
    /\ workers = [w \in WorkerIds |-> [at |-> "recv", held |-> << >>]]
    /\ serializer = "running"
    /\ IdleIO
    /\ faults = NoFaults

SpecPoolASN == InitPoolASN /\ [][NextPool]_vars

\* Every network of the stream has its address inside the one network that
\* IPinfo Lite holds, so each ASN lookup of a worker after its first is at
\* an address within the prefix of its previous lookup.
StreamInsideOneASNPrefix ==
    /\ Len(db.ipinfoLite) = 1
    /\ \A i \in 1..Len(db.geoLiteCity) :
           Contains(db.ipinfoLite[1].net, db.geoLiteCity[i].net.start)

\* C24: a worker reuses its cached ASN record when the address of the
\* current prefix falls within the prefix of its previous ASN lookup and
\* does not query the ASN sources: over a stream whose addresses all fall
\* within one IPinfo Lite prefix, a worker queries IPinfo Lite once (one
\* counted hit), however many networks it handles.
C24_CachedASNReused ==
    StreamInsideOneASNPrefix =>
        \A w \in WorkerIds : pool.contexts[w].stats.ipinfoLiteHits <= 1

---------------------------------------------------------------------------
(* String interning (interner.Intern)                                      *)

\* The texts the callers pass: the empty string, a common string that Init
\* stored, and a string the pool does not hold at first.
Texts == {"", "en", "x"}

TextLen(t) == CASE t = "" -> 0 [] t = "en" -> 2 [] OTHER -> 1

\* The literal "" that Intern returns for the empty string.
EmptyStr == Str("", 0)

\* sync.Map.Store followed by the return of the argument: the entry of an
\* earlier caller is replaced.
StoreAndReturn(m, s) ==
    [ pool   |-> [t \in DOMAIN m \cup {s.text} |-> IF t = s.text THEN s ELSE m[t]],
      actual |-> s ]

\* sync.Map.LoadOrStore: the value already stored under the key, or the
\* argument after storing it.
LoadOrStore(m, s) ==
    IF s.text \in DOMAIN m
    THEN [pool |-> m, actual |-> m[s.text]]
    ELSE [ pool   |-> [t \in DOMAIN m \cup {s.text} |-> IF t = s.text THEN s ELSE m[t]],
           actual |-> s ]

Callers == 1..Len(interner.calls)

\* Intern: the test for the empty string and global.pool.Load(s).
InternLoad(g) ==
    /\ interner.calls[g].at = "load"
    /\ LET s == interner.calls[g].arg
       IN  interner' =
             IF s.text = ""
             THEN [interner EXCEPT !.calls[g].at = "returned", !.calls[g].ret = EmptyStr]
             ELSE IF s.text \in DOMAIN interner.pool
             THEN [interner EXCEPT !.calls[g].at = "hit", !.calls[g].ret = interner.pool[s.text]]
             ELSE [interner EXCEPT !.calls[g].at = "miss"]
    /\ UNCHANGED <<loader, probe, faults, ctor, fs, db, pc, idx, tree, stats, mrecord,
                   pool, workers, serializer>>

\* Intern: global.hits.Add(1) and the return of the existing value.
InternHit(g) ==
    /\ interner.calls[g].at = "hit"
    /\ interner' = [interner EXCEPT !.hits = @ + 1, !.calls[g].at = "returned"]
    /\ UNCHANGED <<loader, probe, faults, ctor, fs, db, pc, idx, tree, stats, mrecord,
                   pool, workers, serializer>>

\* Intern: global.misses.Add(1)
InternMiss(g) ==
    /\ interner.calls[g].at = "miss"
    /\ interner' = [interner EXCEPT !.misses = @ + 1, !.calls[g].at = "savings"]
    /\ UNCHANGED <<loader, probe, faults, ctor, fs, db, pc, idx, tree, stats, mrecord,
                   pool, workers, serializer>>

\* Intern: global.savings.Add(int64(len(s)))
InternSavings(g) ==
    /\ interner.calls[g].at = "savings"
    /\ interner' = [ interner EXCEPT !.savings = @ + TextLen(interner.calls[g].arg.text),
                                     !.calls[g].at = "store" ]
    /\ UNCHANGED <<loader, probe, faults, ctor, fs, db, pc, idx, tree, stats, mrecord,
                   pool, workers, serializer>>

\* Intern: global.pool.LoadOrStore(s, s) and the return of the actual value.
InternLoadOrStore(g) ==
    /\ interner.calls[g].at = "store"
    /\ LET r == LoadOrStore(interner.pool, interner.calls[g].arg)
       IN  interner' = [ interner EXCEPT !.pool = r.pool,
                                         !.calls[g].ret = r.actual,
                                         !.calls[g].at = "returned" ]
    /\ UNCHANGED <<loader, probe, faults, ctor, fs, db, pc, idx, tree, stats, mrecord,
                   pool, workers, serializer>>

NextIntern ==
    \E g \in Callers :
        \/ InternLoad(g)
        \/ InternHit(g)
        \/ InternMiss(g)
        \/ InternSavings(g)
        \/ InternLoadOrStore(g)

\* NumCallers goroutines call Intern at the same time, each with a string of
\* its own allocation.
InitIntern ==
    /\ db = [ geoLiteCity |-> << >>, dbipV4 |-> << >>, dbipV6 |-> << >>,
              ipinfoLite |-> << >>, geoLiteASN |-> << >>, routeViewsASN |-> << >>,
              geoWhoisCountry |-> << >>, qqwry |-> << >>, openproxyDB |-> NoProxyList ]
    /\ pc = "done"
    /\ idx = 1
    /\ tree = EmptyTree
    /\ stats = ZeroStats
    /\ mrecord = ZeroMergedRecord
    /\ pool = NewWorkerPool
    /\ workers = [w \in WorkerIds |-> [at |-> "exited", held |-> << >>]]
    /\ serializer = "exited"
    /\ loader = NoLoader
    /\ probe = NoProbe
    /\ faults = NoFaults
    /\ ctor = BuiltMerger
    /\ fs = NoWrite
    /\ \E texts \in [1..NumCallers -> Texts] :
           interner = [ NoInternCalls EXCEPT !.calls =
                          [ g \in 1..NumCallers |->
                              [arg |-> Str(texts[g], g), at |-> "load", ret |-> EmptyStr] ] ]

SpecIntern == InitIntern /\ [][NextIntern]_vars

\* The calls with a non-empty string.
NonEmptyCalls == { g \in Callers : interner.calls[g].arg.text # "" }

Returned(g) == interner.calls[g].at = "returned"

\* C25: under any interleaving, calls with equal non-empty strings return
\* the same canonical value, which is the pool's one entry for the string;
\* the pool holds entries for the interned strings only; Intern("") returns
\* "" and adds no entry and no count; and once all calls have returned,
\* hits + misses is the number of calls with a non-empty string.
C25_InternCanonicalUnderConcurrency ==
    /\ \A g \in NonEmptyCalls :
           Returned(g) =>
               /\ interner.calls[g].ret.text = interner.calls[g].arg.text
               /\ interner.calls[g].arg.text \in DOMAIN interner.pool
               /\ interner.pool[interner.calls[g].arg.text] = interner.calls[g].ret
               /\ \A h \in NonEmptyCalls :
                      (Returned(h) /\ interner.calls[h].arg.text = interner.calls[g].arg.text)
                          => interner.calls[h].ret = interner.calls[g].ret
    /\ \A g \in Callers \ NonEmptyCalls : Returned(g) => interner.calls[g].ret = EmptyStr
    /\ DOMAIN interner.pool \subseteq
           DOMAIN InitialPool \cup { interner.calls[g].arg.text : g \in NonEmptyCalls }
    /\ \A t \in DOMAIN interner.pool : interner.pool[t].text = t
    /\ interner.hits + interner.misses <= Cardinality(NonEmptyCalls)
    /\ (\A g \in Callers : Returned(g)) =>
           interner.hits + interner.misses = Cardinality(NonEmptyCalls)

\* Two goroutines missed the same string at the same time, both were
\* counted as misses, and both have returned.
C25_TwoCallersMissedTheSameString ==
    \E g, h \in NonEmptyCalls :
        /\ g # h
        /\ interner.calls[g].arg.text = interner.calls[h].arg.text
        /\ interner.calls[g].arg.text \notin DOMAIN InitialPool
        /\ Returned(g) /\ Returned(h)
        /\ interner.misses >= 2

---------------------------------------------------------------------------
(* The indexed findInCIDR against the linear scan                          *)

\* The loop of the linear findInCIDR from position i on; best is the
\* position of bestMatch, 0 while there is none.
RECURSIVE ScanForward(_, _, _, _)
ScanForward(r, addr, i, best) ==
    IF i > Len(r.cidrRanges) THEN best
    ELSE LET entry == r.cidrRanges[i]
             bestBits == IF best = 0 THEN -1 ELSE r.cidrRanges[best].prefix.bits
         IN  ScanForward(r, addr, i + 1,
                 IF Contains(entry.prefix, addr) /\ entry.prefix.bits > bestBits
                 THEN i ELSE best)

\* findInCIDR as a linear scan: the position of the entry returned, 0 for
\* not found.
FindInCIDRLinear(r, addr) == ScanForward(r, addr, 1, 0)

\* C26 (as stated): for every loaded set of CIDR rows and every address
\* that has no single-IP row, the lookup through the indexed findInCIDR
\* gives the same found/not-found answer and the same record as the linear
\* scan over the same entries.
C26_IndexedEqualsLinearScan ==
    (probe.called /\ probe.addr \notin DOMAIN LoadedReader.singleIPs) =>
        LET ref == FindInCIDRLinear(LoadedReader, probe.addr)
        IN  /\ probe.found = (ref # 0)
            /\ ref # 0 => probe.record = LoadedReader.cidrRanges[ref].record

---------------------------------------------------------------------------
(* Termination of the worker pool                                          *)

\* A worker's receive can proceed: it is at the head of its loop and the
\* work channel holds an item. This is ENABLED <<WorkerReceive(w)>>_vars,
\* since the receive always shortens the work channel.
CanReceive(w) == workers[w].at = "recv" /\ pool.workChan # << >>

\* WF_vars(WorkerReceive(w)) with its enabling condition written out.
WorkerReceiveFair(w) == []<>(~CanReceive(w)) \/ []<><<WorkerReceive(w)>>_vars

\* The goroutines of the pool under the Go scheduler: a goroutine that can
\* take its next step (it is runnable, or its channel operation can
\* proceed) is eventually run. The serializer is one of them, so the result
\* channel is drained until it is closed.
PoolFairness ==
    /\ WF_vars(Submit)
    /\ WF_vars(CloseWork)
    /\ \A w \in WorkerIds :
          WorkerReceiveFair(w) /\ WF_vars(WorkerSend(w)) /\ WF_vars(WorkerExit(w))
    /\ WF_vars(Wait)
    /\ WF_vars(SerializerInsert)
    /\ WF_vars(SerializerExit)

SpecPoolFlowFair == InitPoolFlow /\ [][NextPool]_vars /\ PoolFairness

\* The producer is in submit and its send cannot proceed.
ProducerBlocked ==
    pc = "submit" /\ idx <= Len(db.geoLiteCity) /\ Len(pool.workChan) = WorkChanSize

\* C27: with the result channel drained until it is closed, the pool
\* terminates for every stream: a producer blocked in submit on a full work
\* channel is eventually unblocked, after closeWork every worker eventually
\* exits, wait() returns and closes the result channel, and the
\* serializer's receive loop ends.
C27_PoolTerminates ==
    /\ ProducerBlocked ~> ~ProducerBlocked
    /\ pool.workClosed ~> (\A w \in WorkerIds : workers[w].at = "exited")
    /\ <>(pool.resultClosed /\ pc # "wait" /\ pc # "submit")
    /\ <>(serializer = "exited")

\* The pool has terminated on a stream of the greatest length, longer than
\* the work channel, with results sent and empty records dropped.
C27_TerminatedOnLongStream ==
    /\ serializer = "exited"
    /\ pool.resultClosed
    /\ \A w \in WorkerIds : workers[w].at = "exited"
    /\ pool.totalNetworks = MaxStreamLen
    /\ MaxStreamLen > WorkChanSize
    /\ AggregateStats.ProcessedNetworks > ResultChanSize
    /\ AggregateStats.EmptyRecords > 0

---------------------------------------------------------------------------
(* The statistics of the pool                                              *)

\* The networks of the stream whose record is empty.
EmptyItems == { i \in 1..Len(db.geoLiteCity) : IsNil(ResultOf(i).mmdbRecord) }

\* The results sent on the result channel: those still in it and those the
\* serializer has inserted.
ResultsSent ==
    Len(pool.resultChan) + Cardinality({ i \in 1..Len(db.geoLiteCity) : InTree(i) = 1 })

\* C28: once closeWork was called and wait has returned, aggregateStats
\* gives TotalNetworks = EmptyRecords + ProcessedNetworks, ProcessedNetworks
\* is the number of results sent on the result channel, and every submitted
\* item is counted in exactly one of the two counters: the empty ones in
\* EmptyRecords, the others in ProcessedNetworks.
C28_PoolStatsAddUp ==
    (pc = "join" /\ pool.workClosed /\ pool.resultClosed) =>
        /\ AggregateStats.TotalNetworks
              = AggregateStats.EmptyRecords + AggregateStats.ProcessedNetworks
        /\ AggregateStats.TotalNetworks = Len(db.geoLiteCity)
        /\ AggregateStats.ProcessedNetworks = ResultsSent
        /\ AggregateStats.EmptyRecords = Cardinality(EmptyItems)
        /\ AggregateStats.ProcessedNetworks = Len(db.geoLiteCity) - Cardinality(EmptyItems)

\* The pool has finished and the serializer has inserted every result; both
\* workers counted networks, and empty and non-empty records were counted.
C28_FinishedWithBothCounters ==
    /\ pc = "join"
    /\ pool.resultClosed
    /\ serializer = "exited"
    /\ pool.resultChan = << >>
    /\ AggregateStats.EmptyRecords >= 2
    /\ AggregateStats.ProcessedNetworks >= 2
    /\ \A w \in WorkerIds :
           pool.contexts[w].stats.emptyRecords + pool.contexts[w].stats.processedNetworks > 0

---------------------------------------------------------------------------
(* Records with data outside the emptiness test                            *)

\* Proxy lists of the runs: none, a CIDR row over the lower half of the
\* address space, a single-IP row.
OutsideProxyFiles ==
    { << >>,
      << ProxyRow(TRUE, [start |-> 0, bits |-> 1], FALSE, TRUE) >>,
      << ProxyRow(FALSE, [start |-> 2, bits |-> AddrBits], TRUE, FALSE) >> }

\* Runs of the worker pool over GeoLite2-City leaves with and without geo
\* data, under an IPinfo Lite leaf with a well-formed asn, one whose asn is
\* not a number, or none, and under the proxy lists.
InitPoolOutside ==
    /\ db \in [ geoLiteCity : Databases(Addrs, MaxGeoLeaves,
                                        {ZeroGeoLite2CityRecord, GeoCountryOnly}),
                dbipV4 : {<< [net |-> [start |-> 0, bits |-> 1], rec |-> DBIPCityOnly] >>},
                dbipV6 : {<< >>},
                ipinfoLite : {<< >>, Single(IPinfoBadASN), Single(IPinfoAS15)},
                geoLiteASN : {<< >>}, routeViewsASN : {<< >>},
                geoWhoisCountry : {<< >>}, qqwry : {<< >>},
                openproxyDB : UNION { OpenOpenproxyDB(rows) : rows \in OutsideProxyFiles } ]
    /\ pc = "submit"
    /\ idx = 1
    /\ tree = EmptyTree
    /\ stats = ZeroStats
    /\ mrecord = ZeroMergedRecord
    /\ pool = NewWorkerPool
    /\ workers = [w \in WorkerIds |-> [at |-> "recv", held |-> << >>]]
    /\ serializer = "running"
    /\ IdleIO
    /\ faults = NoFaults

SpecPoolOutside == InitPoolOutside /\ [][NextPool]_vars

\* The merged record a worker builds for the i-th network of the stream.
BuiltOf(i) ==
    WorkerBuildMergedRecord(NewWorkerContext, db.geoLiteCity[i].net,
                            db.geoLiteCity[i].rec).reusableMergedRecord

\* A merged record with no country code, city, AS number or coordinates
\* whose serialized map nevertheless has keys.
OnlyOutsideData(r) ==
    /\ r.Country.ISOCode = ""
    /\ r.City.GeonameID = 0
    /\ DOMAIN r.City.Names = {}
    /\ r.ASN.Number = 0
    /\ ~r.Location.HasCoordinates
    /\ ~IsNil(ToMMDBType(r))

OutsideItems == { i \in 1..Len(db.geoLiteCity) : OnlyOutsideData(BuiltOf(i)) }

\* C29: a prefix whose merged record has data only outside the emptiness
\* test (proxy flags, an AS organization with number 0, ...) is counted as
\* an empty record and sent nowhere: no worker holds a result for it, the
\* result channel has none, and Pass 1 puts nothing in the trie for it; and
\* in the output, proxy flags are only on records that also have a country
\* code, a city, an AS number or coordinates.
C29_OutsideDataCountedEmpty ==
    /\ pc \in {"submit", "wait", "join"} =>
          \A i \in OutsideItems :
              /\ \A w \in WorkerIds :
                     workers[w].held # << >>
                         => workers[w].held[1].network # db.geoLiteCity[i].net
              /\ \A j \in 1..Len(pool.resultChan) :
                     pool.resultChan[j].network # db.geoLiteCity[i].net
              /\ \A a \in AddrsOf(db.geoLiteCity[i].net) : a \notin DOMAIN tree
    /\ pc = "join" =>
          /\ AggregateStats.EmptyRecords >= Cardinality(OutsideItems)
          /\ AggregateStats.ProcessedNetworks
                <= Len(db.geoLiteCity) - Cardinality(OutsideItems)
    /\ \A a \in DOMAIN tree :
          HasKey(tree[a], "proxy") =>
              \/ HasField(tree[a], "country", "iso_code")
              \/ HasKey(tree[a], "city")
              \/ HasField(tree[a], "asn", "autonomous_system_number")
              \/ HasField(tree[a], "location", "latitude")

\* The pool has finished a stream with a network whose record had proxy
\* flags only, counted as empty and absent from the trie, while another
\* network's proxy flags are in the trie.
C29_ProxyOnlyPrefixDropped ==
    /\ pc = "join"
    /\ \E i \in OutsideItems :
          /\ BuiltOf(i).Proxy.IsTor
          /\ BuiltOf(i).ASN.Organization = ""
          /\ \A a \in AddrsOf(db.geoLiteCity[i].net) : a \notin DOMAIN tree
    /\ AggregateStats.EmptyRecords > 0
    /\ \E a \in DOMAIN tree : HasKey(tree[a], "proxy")

---------------------------------------------------------------------------
(* Reuse of records between prefixes                                       *)

\* A database with one leaf over the half of the address space at h.
HalfLeaf(h, rec) == << [net |-> [start |-> h, bits |-> 1], rec |-> rec] >>

\* Runs of the worker pool in which IPinfo Lite, GeoWhois, QQWry and the
\* proxy list cover one half of the address space and miss in the other,
\* over GeoLite2-City leaves with and without geo data.
InitPoolHistory ==
    /\ \E h \in {0, 2} :
         db \in [ geoLiteCity : Databases(Addrs, MaxGeoLeaves,
                                          {ZeroGeoLite2CityRecord, GeoCountryOnly}),
                  dbipV4 : {<< [net |-> [start |-> 0, bits |-> 1], rec |-> DBIPCityOnly] >>},
                  dbipV6 : {<< >>},
                  ipinfoLite : {HalfLeaf(h, IPinfoAS15)},
                  geoLiteASN : {<< >>}, routeViewsASN : {<< >>},
                  geoWhoisCountry : {HalfLeaf(h, GeoWhoisCN)},
                  qqwry : {HalfLeaf(h, QQWryFull)},
                  openproxyDB : OpenOpenproxyDB(
                      << ProxyRow(TRUE, [start |-> h, bits |-> 1], FALSE, TRUE) >>) ]
    /\ pc = "submit"
    /\ idx = 1
    /\ tree = EmptyTree
    /\ stats = ZeroStats
    /\ mrecord = ZeroMergedRecord
    /\ pool = NewWorkerPool
    /\ workers = [w \in WorkerIds |-> [at |-> "recv", held |-> << >>]]
    /\ serializer = "running"
    /\ IdleIO
    /\ faults = NoFaults

SpecPoolHistory == InitPoolHistory /\ [][NextPool]_vars

\* The i-th network of the stream as a work item.
ItemOf(i) == [network |-> db.geoLiteCity[i].net, geoRecord |-> db.geoLiteCity[i].rec]

\* The merged record a worker would build for the i-th network now, with
\* the context its earlier items have left it.
RecordAfterHistory(w, i) ==
    ProcessWorkItem(pool.contexts[w], ItemOf(i)).ctx.reusableMergedRecord

====
